---- MODULE Spec2Model ----
(***************************************************************************)
(* Volume lifecycle and secret management of agerstam/bootstrap            *)
(* (internal/luks/luks.go, cmd/udm/main.go).                                *)
(*                                                                         *)
(* The host is the state: the device-mapper mappings carrying the          *)
(* configured name, the mount of the mapped device, the mount directory,   *)
(* the backing file, the TPM NV slot and the two boot tables.  Every       *)
(* exported function of package luks is one action; the external commands  *)
(* it runs (umount, cryptsetup, lsblk, blkid, the tpm2 tools) are          *)
(* delegates whose exit status is an input of the action, constrained by   *)
(* the host state.  The tables are text files: every line, the last one    *)
(* included, ends with "\n"; the mount point is configured in the form     *)
(* lsblk reports it.                                                       *)
(*                                                                         *)
(* The commands that are one call of the package are one action each.  The *)
(* authorize command is a sequence of calls that each end the process on   *)
(* error: it has one action per call, pc is its position.  Spec is the     *)
(* package called on a provisioned volume, SpecAuthorize the commands      *)
(* authorize, mount and unmount, SpecKey and SpecMount are GenerateLUKSKey *)
(* and MountLUKSVolume on any argument.  SpecConfig is main from LoadConfig *)
(* on, SpecKeyfile the key file written and read back, SpecSignal the      *)
(* resident program and its signal handler.  SpecRewrite follows           *)
(* removeLineFromFile and SpecPipe createPasswordInput statement by        *)
(* statement.                                                              *)
(*                                                                         *)
(* Strings are sequences of atoms (a path is <<"/", "mnt", "/", "vol">>),   *)
(* so that strings.Contains is a real substring test.  A file is the       *)
(* sequence of its atoms with "\n" as the line terminator.                 *)
(***************************************************************************)
EXTENDS Integers, Sequences, FiniteSets, TLC

VARIABLES
    useTPM,      \* cfg.UseTPM
    hasTPM,      \* /dev/tpmrm0 exists
    mappings,    \* number of active mappings named cfg.MapperName
    mounted,     \* the mapped device is mounted at cfg.MountPoint
    mountDir,    \* the mount point directory exists
    volumeFile,  \* the backing file cfg.VolumePath exists
    nvSlot,      \* content of the NV index DefaultNVIndex, <<>> when undefined
    fstab,       \* content of /etc/fstab
    crypttab,    \* content of /etc/crypttab
    last,        \* the last call: function, error, delegate calls, state before
    fileSize,    \* size in bytes of the backing file
    luksHeader,  \* the key the backing file is formatted with, <<>> when it is
                 \* no LUKS container
    owner,       \* user and group owning the root directory of the filesystem
                 \* in the container (the mount point while it is mounted),
                 \* <<>> when the container holds no filesystem
    keyfile,     \* content of the key file cfg.Cmd.Keyfile, <<>> when missing
    tmpFile,     \* content of a luks-password-* file left in the temp directory
    cfg,         \* the fields of the descriptor a command was started with
    pc,          \* position of the authorize command, "idle" between commands
    run,         \* the steps the running authorize command has finished
    sigChan,     \* number of signals buffered in the channel of the handler
    handler,     \* position of the goroutine of setupSignalHandler, "off"
                 \* before it is started
    signals,     \* number of termination signals sent to the process
    teardowns,   \* number of times the goroutine has gone on to the cleanup
    tempFile,    \* the file <table>.tmp of removeLineFromFile
    scan,        \* the running removeLineFromFile: its arguments, the lines
                 \* not yet scanned and the buffer of its bufio.Writer
    pipe,        \* the pipe of createPasswordInput: the bytes in it and
                 \* whether its write end is open
    writer,      \* position of the goroutine of createPasswordInput
    child        \* the external command reading the pipe: its position and
                 \* the bytes it has read

vars == <<useTPM, hasTPM, mappings, mounted, mountDir, volumeFile, nvSlot,
          fstab, crypttab, last, fileSize, luksHeader, owner, keyfile, tmpFile,
          cfg, pc, run, sigChan, handler, signals, teardowns,
          tempFile, scan, pipe, writer, child>>

\* the state of the signal handling
sigvars == <<sigChan, handler, signals, teardowns>>

\* the state of the functions that are followed statement by statement
stepvars == <<tempFile, scan, pipe, writer, child>>

----------------------------------------------------------------------------
(* Bounds *)

\* largest key length GenerateLUKSKey is asked for (lengths run from -1)
MaxLength == 66
\* AddPersistentMount is not run on a table that already has this many lines
MaxLines == 3
\* the device-mapper is not asked for more mappings of one name than this
MaxMappings == 3
\* no more termination signals than this are sent to one process
MaxSignals == 3
\* longest secret written to a key file on its own
MaxSecret == 3

(* Program constants *)

MinKeyLength == 8
MaxSecretLength == 64
MinSize == 1
MaxSize == 64
MiB == 1048576
\* make(chan os.Signal, 1)
ChanCap == 1

\* the byte "\n"
LF == 10
\* a byte of an NV index that is defined and was never written
Unwritten == -1

Nil == "nil"
NL == "\n"
CR == "\r"
SP == " "

\* the descriptor of the volume (config.AppConfig.LUKS after Validate)
MapperName == <<"udm">>
MountPoint == <<"/", "mnt", "/", "vol">>
VolumePath == <<"/", "var", "/", "vol.img">>
KeyFile == <<"/", "etc", "/", "key.bin">>
User == "root"
Group == "root"

\* the filesystem UUID blkid reports for the mapped device
FsUUID == <<"1f3a">>

\* the key the container was formatted with (length cfg.PasswordLength)
PasswordLength == 9
\* cfg.Size of the provisioned volume, in MiB
DefaultSize == 10
LuksKey == [i \in 1..PasswordLength |-> 7]
WrongKey == [i \in 1..PasswordLength |-> 8]

\* the descriptor of a command: the fields of config.AppConfig a command
\* reads, cfg.LUKS.Password, cfg.Cmd.Keyfile and the bootstrap token
NoToken == [loaded |-> FALSE, TokenId |-> "", Version |-> ""]
Descriptor(size, length, user, group) ==
    [Size |-> size, PasswordLength |-> length, User |-> user, Group |-> group,
     Password |-> <<>>, Keyfile |-> KeyFile, Bootstrap |-> NoToken]
\* a nil *LUKS
NilLUKS == [nil |-> TRUE]

----------------------------------------------------------------------------
(* Strings *)

\* strings.Contains
Contains(s, token) ==
    \E i \in 0..(Len(s) - Len(token)) : SubSeq(s, i + 1, i + Len(token)) = token

IsSpace(c) == c \in {SP, NL, CR, "\t"}

\* strings.TrimSpace: s from its first to its last character that is no
\* white space
TrimSpace(s) ==
    LET keep == {i \in 1..Len(s) : ~IsSpace(s[i])}
    IN IF keep = {} THEN <<>>
       ELSE SubSeq(s, CHOOSE i \in keep : \A j \in keep : i <= j,
                      CHOOSE i \in keep : \A j \in keep : i >= j)

\* index of the first "\n" of s, 0 when there is none
FirstNL(s) ==
    LET nls == {i \in 1..Len(s) : s[i] = NL}
    IN IF nls = {} THEN 0 ELSE CHOOSE i \in nls : \A j \in nls : i <= j

\* bufio.ScanLines drops one trailing "\r" of a line
DropCR(s) ==
    IF s # <<>> /\ s[Len(s)] = CR THEN SubSeq(s, 1, Len(s) - 1) ELSE s

\* the lines bufio.Scanner yields for a file: split at "\n", a last line
\* without terminator is still a line, no empty line after the last "\n"
RECURSIVE ScanLines(_)
ScanLines(s) ==
    IF s = <<>> THEN <<>>
    ELSE LET i == FirstNL(s) IN
         IF i = 0 THEN <<DropCR(s)>>
         ELSE <<DropCR(SubSeq(s, 1, i - 1))>> \o ScanLines(SubSeq(s, i + 1, Len(s)))

----------------------------------------------------------------------------
(* The host state as one record, and the result of a call *)

World ==
    [mappings |-> mappings, mounted |-> mounted, mountDir |-> mountDir,
     volumeFile |-> volumeFile, nvSlot |-> nvSlot,
     fstab |-> fstab, crypttab |-> crypttab,
     fileSize |-> fileSize, luksHeader |-> luksHeader, owner |-> owner,
     keyfile |-> keyfile, tmpFile |-> tmpFile]

\* one delegate invocation (external command or os call) and its outcome
Call(fn, ok) == [fn |-> fn, ok |-> ok]

Result(w, err, calls) == [w |-> w, err |-> err, calls |-> calls]

NoIO == [first |-> TRUE, second |-> TRUE]

\* the call record kept in last; again: the call repeats the function of
\* the call before it, which had succeeded
Record(op, r, pre, io, arg, out) ==
    [op |-> op, err |-> r.err, calls |-> r.calls, pre |-> pre, io |-> io,
     arg |-> arg, out |-> out,
     again |-> (op = last.op /\ last.err = Nil)]

\* the host after a call, and the record of the call
Apply(op, r, io, arg, out) ==
    /\ mappings' = r.w.mappings
    /\ mounted' = r.w.mounted
    /\ mountDir' = r.w.mountDir
    /\ volumeFile' = r.w.volumeFile
    /\ nvSlot' = r.w.nvSlot
    /\ fstab' = r.w.fstab
    /\ crypttab' = r.w.crypttab
    /\ fileSize' = r.w.fileSize
    /\ luksHeader' = r.w.luksHeader
    /\ owner' = r.w.owner
    /\ keyfile' = r.w.keyfile
    /\ tmpFile' = r.w.tmpFile
    /\ last' = Record(op, r, World, io, arg, out)
    /\ UNCHANGED <<useTPM, hasTPM>>

\* a call made by a command that is one call: the process starts with the
\* call and ends with it
Commit(op, r, io, arg, out) ==
    /\ pc = "idle"
    /\ Apply(op, r, io, arg, out)
    /\ UNCHANGED <<cfg, pc, run>>
    /\ UNCHANGED sigvars
    /\ UNCHANGED stepvars

\* a process without signal handler
NoSignals == sigChan = 0 /\ handler = "off" /\ signals = 0 /\ teardowns = 0

\* no <table>.tmp file, no removeLineFromFile running
NoFile == [exists |-> FALSE, content |-> <<>>]
NoScan == [path |-> "", token |-> <<>>, lines |-> <<>>, buf |-> <<>>,
           fileOpen |-> FALSE, tempOpen |-> FALSE, cleanup |-> FALSE,
           tempAt |-> "", err |-> Nil]
\* no pipe, no goroutine and no external command
NoPipe == [buf |-> <<>>, wOpen |-> FALSE, made |-> FALSE]
NoChild == [at |-> "none", read |-> <<>>]
NoSteps ==
    /\ tempFile = NoFile
    /\ scan = NoScan
    /\ pipe = NoPipe
    /\ writer = "none"
    /\ child = NoChild

----------------------------------------------------------------------------
(* Teardown *)

\* UnmountLUKSVolume that reports the failure of umount without a retry
UnmountLUKSVolume_noretry(w, e) ==
    IF w.mounted /\ e.umount
    THEN Result([w EXCEPT !.mounted = FALSE], Nil, <<Call("umount", TRUE)>>)
    ELSE Result(w, "failed to unmount LUKS volume", <<Call("umount", FALSE)>>)

\* UnmountLUKSVolume: umount, and umount -l when that failed.
\* umount succeeds only on a mounted mount point that is not busy.
UnmountLUKSVolume(w, e) ==
    LET ok1 == w.mounted /\ e.umount
        ok2 == w.mounted /\ e.lazy
    IN IF ok1
       THEN Result([w EXCEPT !.mounted = FALSE], Nil, <<Call("umount", TRUE)>>)
       ELSE IF ok2
            THEN Result([w EXCEPT !.mounted = FALSE], Nil,
                        <<Call("umount", FALSE), Call("umount -l", TRUE)>>)
            ELSE Result(w, "failed to unmount LUKS volume",
                        <<Call("umount", FALSE), Call("umount -l", FALSE)>>)

\* cryptsetup luksClose: needs an active mapping that is not in use
luksClose(w, e) == w.mappings > 0 /\ ~w.mounted /\ e.close

\* CloseLUKSVolume
CloseLUKSVolume(w, e) ==
    IF luksClose(w, e)
    THEN Result([w EXCEPT !.mappings = @ - 1], Nil, <<Call("luksClose", TRUE)>>)
    ELSE Result(w, "failed to close LUKS volume", <<Call("luksClose", FALSE)>>)

\* removePasswordFromTPM: tpm2_nvundefine fails on an undefined index
removePasswordFromTPM(w, e) ==
    IF w.nvSlot # <<>> /\ e.nvundefine
    THEN Result([w EXCEPT !.nvSlot = <<>>], Nil, <<Call("tpm2_nvundefine", TRUE)>>)
    ELSE Result(w, "tpm2_nvundefine error", <<Call("tpm2_nvundefine", FALSE)>>)

\* os.RemoveAll(cfg.MountPoint): a missing directory is no error, a
\* directory that is a live mount point cannot be removed
RemoveAllMountPoint(w, e) ==
    IF ~w.mounted /\ e.rmdir
    THEN Result([w EXCEPT !.mountDir = FALSE], Nil, <<Call("RemoveAll", TRUE)>>)
    ELSE Result(w, "failed to remove mount directory", <<Call("RemoveAll", FALSE)>>)

\* os.Remove(cfg.VolumePath): fails on a missing file.  A mapping that is
\* still open keeps the unlinked container and its filesystem alive.
RemoveVolumeFile(w, e) ==
    IF w.volumeFile /\ e.rmfile
    THEN Result([w EXCEPT !.volumeFile = FALSE, !.fileSize = 0, !.luksHeader = <<>>],
                Nil, <<Call("Remove", TRUE)>>)
    ELSE Result(w, "failed to remove LUKS image file", <<Call("Remove", FALSE)>>)

\* RemoveLUKSVolume with an abort at the first failing step
RemoveLUKSVolume_abort(w, tpm, e) ==
    LET r1 == UnmountLUKSVolume(w, e)
        r2 == CloseLUKSVolume(r1.w, e)
        r3 == RemoveAllMountPoint(r2.w, e)
        r4 == RemoveVolumeFile(r3.w, e)
        r5 == removePasswordFromTPM(r4.w, e)
    IN IF r1.err # Nil THEN Result(r1.w, r1.err, r1.calls)
       ELSE IF r2.err # Nil THEN Result(r2.w, r2.err, r1.calls \o r2.calls)
       ELSE IF r3.err # Nil THEN Result(r3.w, r3.err, r1.calls \o r2.calls \o r3.calls)
       ELSE IF tpm
            THEN Result(r5.w, Nil, r1.calls \o r2.calls \o r3.calls \o r4.calls \o r5.calls)
            ELSE Result(r4.w, Nil, r1.calls \o r2.calls \o r3.calls \o r4.calls)

\* RemoveLUKSVolume: every step runs, every error is only logged
RemoveLUKSVolume(w, tpm, e) ==
    LET r1 == UnmountLUKSVolume(w, e)
        r2 == CloseLUKSVolume(r1.w, e)
        r3 == RemoveAllMountPoint(r2.w, e)
        r4 == RemoveVolumeFile(r3.w, e)
        r5 == removePasswordFromTPM(r4.w, e)
    IN IF tpm
       THEN Result(r5.w, Nil, r1.calls \o r2.calls \o r3.calls \o r4.calls \o r5.calls)
       ELSE Result(r4.w, Nil, r1.calls \o r2.calls \o r3.calls \o r4.calls)

\* UnmountAndCloseLUKSVolume that returns the error of a failed unmount
UnmountAndCloseLUKSVolume_abort(c, w, e) ==
    LET r1 == UnmountLUKSVolume(w, e)
        r2 == CloseLUKSVolume(r1.w, e)
    IN IF c = NilLUKS THEN Result(w, "LUKS configuration is nil", <<>>)
       ELSE IF r1.err # Nil THEN Result(r1.w, r1.err, r1.calls)
       ELSE Result(r2.w, r2.err, r1.calls \o r2.calls)

\* UnmountAndCloseLUKSVolume: the nil check, then UnmountLUKSVolume and
\* CloseLUKSVolume, the error of either only logged
UnmountAndCloseLUKSVolume(c, w, e) ==
    LET r1 == UnmountLUKSVolume(w, e)
        r2 == CloseLUKSVolume(r1.w, e)
    IN IF c = NilLUKS THEN Result(w, "LUKS configuration is nil", <<>>)
       ELSE Result(r2.w, Nil, r1.calls \o r2.calls)

----------------------------------------------------------------------------
(* Session *)

\* retrievePasswordFromTPM: tpm2_nvread of size bytes of the NV index, which
\* has to be defined and written
retrievePasswordFromTPM(w, size, e) ==
    IF /\ w.nvSlot # <<>> /\ size <= Len(w.nvSlot) /\ size >= 0 /\ e.nvread
       /\ \A i \in 1..Len(w.nvSlot) : w.nvSlot[i] # Unwritten
    THEN [password |-> SubSeq(w.nvSlot, 1, size), err |-> Nil,
          calls |-> <<Call("tpm2_nvread", TRUE)>>]
    ELSE [password |-> <<>>, err |-> "tpm2_nvread error",
          calls |-> <<Call("tpm2_nvread", FALSE)>>]

\* createPasswordInput: what the writer goroutine puts into the pipe
createPasswordInput(password, addNewline) ==
    IF addNewline THEN password \o <<LF>> ELSE password

\* the passphrase cryptsetup takes from standard input: the bytes before the
\* first "\n"
StdinPassphrase(input) ==
    LET lfs == {i \in 1..Len(input) : input[i] = LF}
    IN IF lfs = {} THEN input
       ELSE SubSeq(input, 1, (CHOOSE i \in lfs : \A j \in lfs : i <= j) - 1)

\* cryptsetup luksOpen: needs the container and, on standard input, its
\* key.  The device-mapper's own refusal of a name that is already mapped is
\* not relied on: the delegate may succeed whenever it is invoked, so that
\* the number of mappings is what the callers make it.
luksOpen(w, password, e) ==
    /\ w.volumeFile /\ w.luksHeader # <<>>
    /\ StdinPassphrase(createPasswordInput(password, TRUE)) = w.luksHeader
    /\ e.open /\ w.mappings < MaxMappings

\* a run of cryptsetup luksOpen and what it got on standard input
OpenCall(password, ok) ==
    [fn |-> "luksOpen", ok |-> ok, stdin |-> createPasswordInput(password, TRUE)]

\* the rest of OpenLUKSVolume that unlocks with the password of the
\* descriptor whatever tpm2_nvread returned
OpenTail_configured(w, tpm, password, size, e, calls) ==
    LET r == retrievePasswordFromTPM(w, size, e)
        c == IF tpm THEN calls \o r.calls ELSE calls
    IN IF luksOpen(w, password, e)
       THEN Result([w EXCEPT !.mappings = @ + 1], Nil,
                   c \o <<OpenCall(password, TRUE)>>)
       ELSE Result(w, "failed to open LUKS volume",
                   c \o <<OpenCall(password, FALSE)>>)

\* the rest of OpenLUKSVolume after the check for an existing mapping: with
\* UseTPM the password is what tpm2_nvread returned
OpenTail(w, tpm, password, size, e, calls) ==
    LET r == retrievePasswordFromTPM(w, size, e)
        pw == IF tpm THEN r.password ELSE password
        c == IF tpm THEN calls \o r.calls ELSE calls
    IN IF tpm /\ r.err # Nil
       THEN Result(w, "failed to retrieve password from TPM", c)
       ELSE IF luksOpen(w, pw, e)
            THEN Result([w EXCEPT !.mappings = @ + 1], Nil,
                        c \o <<OpenCall(pw, TRUE)>>)
            ELSE Result(w, "failed to open LUKS volume",
                        c \o <<OpenCall(pw, FALSE)>>)

\* OpenLUKSVolume that unlocks without closing an existing mapping
OpenLUKSVolume_noclose(w, tpm, password, size, e) ==
    OpenTail(w, tpm, password, size, e, <<>>)

\* OpenLUKSVolume: os.Stat of /dev/mapper/<name> finds an existing mapping,
\* which is closed first; a failing close ends the call
OpenLUKSVolume(w, tpm, password, size, e) ==
    IF w.mappings > 0
    THEN IF luksClose(w, e)
         THEN OpenTail([w EXCEPT !.mappings = @ - 1], tpm, password, size, e,
                       <<Call("luksClose", TRUE)>>)
         ELSE Result(w, "failed to close existing mapping",
                     <<Call("luksClose", FALSE)>>)
    ELSE OpenTail(w, tpm, password, size, e, <<>>)

\* mkfs.ext4 /dev/mapper/<name>: needs the mapped device, refuses a mounted
\* one; the root directory of the new filesystem belongs to root:root
mkfs(w, e) == w.mappings > 0 /\ ~w.mounted /\ e.mkfs

\* the state of the volume session
Session(w) ==
    IF w.mounted THEN "Mounted" ELSE IF w.mappings > 0 THEN "Opened" ELSE "Closed"

\* FormatLUKSVolume; the call record keeps the session state it was made in
FormatLUKSVolume(w, e) ==
    IF mkfs(w, e)
    THEN Result([w EXCEPT !.owner = <<"root", "root">>], Nil,
                <<[fn |-> "mkfs.ext4", ok |-> TRUE, session |-> Session(w)]>>)
    ELSE Result(w, "failed to format LUKS volume",
                <<[fn |-> "mkfs.ext4", ok |-> FALSE, session |-> Session(w)]>>)

\* mount /dev/mapper/<name> <mount point>: needs the mapped device with a
\* filesystem on it, not mounted yet
mount(w, e) == w.mappings > 0 /\ ~w.mounted /\ w.owner # <<>> /\ e.mount

\* chown that leaves the owner as it is
chown_noop(w, user, group) == w

\* chown user:group <mount point> on the mounted volume
chown(w, user, group) == [w EXCEPT !.owner = <<user, group>>]

\* MountLUKSVolume with root standing in for a missing user or group
MountLUKSVolume_default(w, user, group, e) ==
    LET u == IF user = "" THEN "root" ELSE user
        g == IF group = "" THEN "root" ELSE group
        w1 == [w EXCEPT !.mountDir = TRUE]
        c1 == <<Call("MkdirAll", TRUE)>>
        c2 == c1 \o <<Call("mount", TRUE)>>
    IN IF ~e.mkdir
       THEN Result(w, "failed to create mount point", <<Call("MkdirAll", FALSE)>>)
       ELSE IF ~mount(w1, e)
       THEN Result(w1, "failed to mount LUKS volume", c1 \o <<Call("mount", FALSE)>>)
       ELSE IF e.chown
       THEN Result(chown([w1 EXCEPT !.mounted = TRUE], u, g), Nil,
                   c2 \o <<Call("chown", TRUE)>>)
       ELSE Result([w1 EXCEPT !.mounted = TRUE],
                   "failed to change ownership of mount point",
                   c2 \o <<Call("chown", FALSE)>>)

\* MountLUKSVolume: MkdirAll, mount, chown user:group
MountLUKSVolume(w, user, group, e) ==
    IF ~e.mkdir
    THEN Result(w, "failed to create mount point", <<Call("MkdirAll", FALSE)>>)
    ELSE LET w1 == [w EXCEPT !.mountDir = TRUE]
             c1 == <<Call("MkdirAll", TRUE)>>
         IN IF ~mount(w1, e)
            THEN Result(w1, "failed to mount LUKS volume", c1 \o <<Call("mount", FALSE)>>)
            ELSE LET w2 == [w1 EXCEPT !.mounted = TRUE]
                     c2 == c1 \o <<Call("mount", TRUE)>>
                 IN IF user = "" \/ group = ""
                    THEN Result(w2, "user and group must be specified", c2)
                    ELSE IF e.chown
                         THEN Result(chown(w2, user, group), Nil,
                                     c2 \o <<Call("chown", TRUE)>>)
                         ELSE Result(w2, "failed to change ownership of mount point",
                                     c2 \o <<Call("chown", FALSE)>>)

----------------------------------------------------------------------------
(* Persistent mount tables *)

\* the /etc/crypttab line of AddPersistentMount
crypttabEntry(tpm, keyFile) ==
    IF tpm
    THEN MapperName \o <<SP>> \o VolumePath
           \o <<SP, "none", SP, "luks,keyscript=/usr/local/bin/tpm-luks-keyscript.sh", NL>>
    ELSE MapperName \o <<SP>> \o VolumePath \o <<SP>> \o keyFile \o <<SP, "luks", NL>>

\* the /etc/fstab line of AddPersistentMount
fstabEntry(uuid) ==
    <<"UUID=">> \o uuid \o <<SP>> \o MountPoint
      \o <<SP, "ext4", SP, "defaults,nofail,x-systemd.requires=cryptsetup@">>
      \o MapperName \o <<".service", SP, "0", SP, "2", NL>>

\* isLUKSMounted: lsblk -o MOUNTPOINT --noheadings /dev/mapper/<name> fails
\* when the mapped device does not exist; its trimmed output is compared
\* with cfg.MountPoint
isLUKSMounted(w, e) ==
    LET output == IF w.mounted THEN MountPoint \o <<NL>> ELSE <<NL>>
    IN IF w.mappings > 0 /\ e.lsblk
       THEN [mounted |-> TrimSpace(output) = MountPoint, err |-> Nil,
             calls |-> <<Call("lsblk", TRUE)>>]
       ELSE [mounted |-> FALSE, err |-> "failed to list mounted devices",
             calls |-> <<Call("lsblk", FALSE)>>]

\* getFilesystemUUID: blkid -p -s UUID -o value, trimmed; empty is an error
getFilesystemUUID(w, e) ==
    LET output == IF e.blkidEmpty THEN <<NL>> ELSE FsUUID \o <<NL>>
        uuid == TrimSpace(output)
    IN IF ~(w.mappings > 0 /\ e.blkid)
       THEN [uuid |-> <<>>, err |-> "blkid command failed",
             calls |-> <<Call("blkid", FALSE)>>]
       ELSE IF uuid = <<>>
            THEN [uuid |-> <<>>, err |-> "no UUID found for device",
                  calls |-> <<Call("blkid", TRUE)>>]
            ELSE [uuid |-> uuid, err |-> Nil, calls |-> <<Call("blkid", TRUE)>>]

\* appendToFile that opens the file with O_TRUNC instead of O_APPEND
appendToFile_trunc(content, entry, ok) ==
    IF ok THEN [content |-> entry, err |-> Nil]
    ELSE [content |-> content, err |-> "append failed"]

\* appendToFile: O_APPEND|O_WRONLY, the content goes after the last byte
appendToFile(content, entry, ok) ==
    IF ok THEN [content |-> content \o entry, err |-> Nil]
    ELSE [content |-> content, err |-> "append failed"]

\* the lines of a file that do not contain token, each written with "\n"
RECURSIVE KeepLines(_, _)
KeepLines(lines, token) ==
    IF lines = <<>> THEN <<>>
    ELSE (IF Contains(Head(lines), token) THEN <<>> ELSE Head(lines) \o <<NL>>)
           \o KeepLines(Tail(lines), token)

\* every line written back with "\n"
RECURSIVE WriteLines(_)
WriteLines(lines) ==
    IF lines = <<>> THEN <<>> ELSE Head(lines) \o <<NL>> \o WriteLines(Tail(lines))

\* the copy loop when it stops filtering after the first removed line
RECURSIVE KeepLinesFirst(_, _)
KeepLinesFirst(lines, token) ==
    IF lines = <<>> THEN <<>>
    ELSE IF Contains(Head(lines), token)
         THEN WriteLines(Tail(lines))
         ELSE Head(lines) \o <<NL>> \o KeepLinesFirst(Tail(lines), token)

\* removeLineFromFile that drops only the first line containing token
removeLineFromFile_first(content, token, ok) ==
    IF ok THEN [content |-> KeepLinesFirst(ScanLines(content), token), err |-> Nil]
    ELSE [content |-> content, err |-> "remove failed"]

\* removeLineFromFile: the kept lines go to <file>.tmp, which is renamed
\* over the file; on any error the file is as it was
removeLineFromFile(content, token, ok) ==
    IF ok THEN [content |-> KeepLines(ScanLines(content), token), err |-> Nil]
    ELSE [content |-> content, err |-> "remove failed"]

\* AddPersistentMount without the mount-state guard
AddPersistentMount_noguard(w, tpm, keyFile, e, io) ==
    LET a1 == appendToFile(w.crypttab, crypttabEntry(tpm, keyFile), io.first)
        w1 == [w EXCEPT !.crypttab = a1.content]
        a2 == appendToFile(w1.fstab, fstabEntry(FsUUID), io.second)
    IN Result([w1 EXCEPT !.fstab = a2.content], Nil, <<>>)

\* AddPersistentMount
AddPersistentMount(w, tpm, keyFile, e, io) ==
    LET m == isLUKSMounted(w, e)
        a1 == appendToFile(w.crypttab, crypttabEntry(tpm, keyFile), io.first)
        w1 == [w EXCEPT !.crypttab = a1.content]
        c1 == m.calls \o <<Call("append /etc/crypttab", a1.err = Nil)>>
        u == getFilesystemUUID(w1, e)
        c2 == c1 \o u.calls
        a2 == appendToFile(w1.fstab, fstabEntry(u.uuid), io.second)
        c3 == c2 \o <<Call("append /etc/fstab", a2.err = Nil)>>
    IN IF m.err # Nil
       THEN Result(w, "failed to check if LUKS volume is mounted", m.calls)
       ELSE IF ~m.mounted
       THEN Result(w, "LUKS volume is not mounted", m.calls)
       ELSE IF a1.err # Nil
       THEN Result(w, "failed to update /etc/crypttab", c1)
       ELSE IF u.err # Nil
       THEN Result(w1, "failed to retrieve filesystem UUID", c2)
       ELSE IF a2.err # Nil
       THEN Result(w1, "failed to update /etc/fstab", c3)
       ELSE Result([w1 EXCEPT !.fstab = a2.content], Nil, c3)

\* RemovePersistentMount without the mount-state guard
RemovePersistentMount_noguard(w, e, io) ==
    LET r1 == removeLineFromFile(w.fstab, MountPoint, io.first)
        w1 == [w EXCEPT !.fstab = r1.content]
        r2 == removeLineFromFile(w1.crypttab, MapperName, io.second)
    IN Result([w1 EXCEPT !.crypttab = r2.content], Nil, <<>>)

\* RemovePersistentMount
RemovePersistentMount(w, e, io) ==
    LET m == isLUKSMounted(w, e)
        r1 == removeLineFromFile(w.fstab, MountPoint, io.first)
        w1 == [w EXCEPT !.fstab = r1.content]
        c1 == m.calls \o <<Call("rewrite /etc/fstab", r1.err = Nil)>>
        r2 == removeLineFromFile(w1.crypttab, MapperName, io.second)
        c2 == c1 \o <<Call("rewrite /etc/crypttab", r2.err = Nil)>>
    IN IF m.err # Nil
       THEN Result(w, "failed to check if LUKS volume is mounted", m.calls)
       ELSE IF m.mounted
       THEN Result(w, "LUKS volume is mounted, please unmount first", m.calls)
       ELSE IF r1.err # Nil
       THEN Result(w, "failed to remove entry from /etc/fstab", c1)
       ELSE IF r2.err # Nil
       THEN Result(w1, "failed to remove entry from /etc/crypttab", c2)
       ELSE Result([w1 EXCEPT !.crypttab = r2.content], Nil, c2)

----------------------------------------------------------------------------
(* Secret generation *)

HexDigits == <<"0", "1", "2", "3", "4", "5", "6", "7",
               "8", "9", "a", "b", "c", "d", "e", "f">>

\* the two hex digits of every byte, as tpm2_getrandom --hex prints them
HexEncode(bytes) ==
    [i \in 1..(2 * Len(bytes)) |->
        IF i % 2 = 1 THEN HexDigits[(bytes[(i + 1) \div 2] \div 16) + 1]
        ELSE HexDigits[(bytes[i \div 2] % 16) + 1]]

HexValue(c) == (CHOOSE i \in 1..16 : HexDigits[i] = c) - 1

HexBytes(s) ==
    [i \in 1..(Len(s) \div 2) |-> HexValue(s[2 * i - 1]) * 16 + HexValue(s[2 * i])]

\* hex.DecodeString: an odd length or a character that is no hex digit is
\* an error
HexDecode(s) ==
    IF Len(s) % 2 = 1 \/ \E i \in 1..Len(s) : \A d \in 1..16 : HexDigits[d] # s[i]
    THEN [bytes |-> <<>>, err |-> "invalid hex"]
    ELSE [bytes |-> HexBytes(s), err |-> Nil]

\* checkTPM2Availability: os.Stat of /dev/tpmrm0
checkTPM2Availability(tpmDev, e) ==
    IF e.statErr THEN [avail |-> FALSE, err |-> "error accessing TPM 2.0 device"]
    ELSE [avail |-> tpmDev, err |-> Nil]

\* what tpm2_getrandom <size> --hex writes to stdout
GetRandomOutput(size, e) ==
    LET hex == HexEncode([i \in 1..size |-> e.byte])
    IN CASE e.out = "hex" -> hex
         [] e.out = "hexnl" -> hex \o <<NL>>
         [] e.out = "odd" -> SubSeq(hex, 1, Len(hex) - 1)
         [] e.out = "bad" -> <<"x">> \o SubSeq(hex, 2, Len(hex))

\* getRandomBytesFromTPM2
getRandomBytesFromTPM2(size, e) ==
    LET d == HexDecode(TrimSpace(GetRandomOutput(size, e)))
    IN IF ~e.run
       THEN [key |-> <<>>, err |-> "failed to execute tpm2_getrandom",
             calls |-> <<Call("tpm2_getrandom", FALSE)>>]
       ELSE IF d.err # Nil
            THEN [key |-> <<>>, err |-> "failed to decode tpm2_getrandom output",
                  calls |-> <<Call("tpm2_getrandom", TRUE)>>]
            ELSE [key |-> d.bytes, err |-> Nil,
                  calls |-> <<Call("tpm2_getrandom", TRUE)>>]

\* GenerateLUKSKey that returns the error of the TPM source
GenerateLUKSKey_nofallback(length, tpmDev, e) ==
    IF length <= MinKeyLength
    THEN [key |-> <<>>, err |-> "key length must be greater than 0", calls |-> <<>>]
    ELSE LET a == checkTPM2Availability(tpmDev, e)
             t == getRandomBytesFromTPM2(length, e)
         IN IF a.err # Nil THEN [key |-> <<>>, err |-> a.err, calls |-> <<>>]
            ELSE IF a.avail THEN t
            ELSE [key |-> [i \in 1..length |-> e.byte], err |-> Nil,
                  calls |-> <<Call("rand.Read", TRUE)>>]

\* GenerateLUKSKey: the length check, the TPM source when the device is
\* there, crypto/rand otherwise and after any TPM failure
GenerateLUKSKey(length, tpmDev, e) ==
    IF length <= MinKeyLength
    THEN [key |-> <<>>, err |-> "key length must be greater than 0", calls |-> <<>>]
    ELSE LET a == checkTPM2Availability(tpmDev, e)
             t == getRandomBytesFromTPM2(length, e)
             useIt == a.err = Nil /\ a.avail
             c == IF useIt THEN t.calls ELSE <<>>
         IN IF useIt /\ t.err = Nil
            THEN [key |-> t.key, err |-> Nil, calls |-> c]
            ELSE [key |-> [i \in 1..length |-> e.byte], err |-> Nil,
                  calls |-> c \o <<Call("rand.Read", TRUE)>>]

----------------------------------------------------------------------------
(* Provisioning *)

\* createSparseFile: MkdirAll of the parent directory, OpenFile with
\* O_CREATE|O_TRUNC, Truncate to sizeMB MiB.  O_TRUNC empties an existing
\* file; Truncate refuses a negative size.
createSparseFile(w, sizeMB, e) ==
    LET w1 == [w EXCEPT !.volumeFile = TRUE, !.fileSize = 0,
                        !.luksHeader = <<>>, !.owner = <<>>]
        c1 == <<Call("MkdirAll dir", TRUE)>>
        c2 == c1 \o <<Call("OpenFile", TRUE)>>
    IN IF e.sparse = "mkdir"
       THEN Result(w, "failed to create directory", <<Call("MkdirAll dir", FALSE)>>)
       ELSE IF e.sparse = "open"
       THEN Result(w, "failed to create file", c1 \o <<Call("OpenFile", FALSE)>>)
       ELSE IF e.sparse = "truncate" \/ sizeMB < 0
       THEN Result(w1, "failed to truncate file", c2 \o <<Call("Truncate", FALSE)>>)
       ELSE Result([w1 EXCEPT !.fileSize = sizeMB * MiB], Nil,
                   c2 \o <<Call("Truncate", TRUE)>>)

\* storePasswordInTPM that pipes the password with a newline, as
\* OpenLUKSVolume does
storePasswordInTPM_newline(w, password, e) ==
    LET n == Len(password)
        w1 == [w EXCEPT !.nvSlot = [i \in 1..n |-> Unwritten]]
        c1 == <<Call("tpm2_nvdefine", TRUE)>>
    IN IF n < 1 \/ n > MaxSecretLength
       THEN Result(w, "password length must be between 1 and 64 bytes", <<>>)
       ELSE IF ~(w.nvSlot = <<>> /\ e.nvdefine)
       THEN Result(w, "tpm2_nvdefine error", <<Call("tpm2_nvdefine", FALSE)>>)
       ELSE IF ~e.nvwrite
       THEN Result(w1, "tpm2_nvwrite error", c1 \o <<Call("tpm2_nvwrite", FALSE)>>)
       ELSE Result([w1 EXCEPT !.nvSlot = createPasswordInput(password, TRUE)], Nil,
                   c1 \o <<Call("tpm2_nvwrite", TRUE)>>)

\* storePasswordInTPM: the length check, tpm2_nvdefine of an index of
\* len(password) bytes (fails on a defined index), tpm2_nvwrite from a pipe
storePasswordInTPM(w, password, e) ==
    LET n == Len(password)
        w1 == [w EXCEPT !.nvSlot = [i \in 1..n |-> Unwritten]]
        c1 == <<Call("tpm2_nvdefine", TRUE)>>
    IN IF n < 1 \/ n > MaxSecretLength
       THEN Result(w, "password length must be between 1 and 64 bytes", <<>>)
       ELSE IF ~(w.nvSlot = <<>> /\ e.nvdefine)
       THEN Result(w, "tpm2_nvdefine error", <<Call("tpm2_nvdefine", FALSE)>>)
       ELSE IF ~e.nvwrite
       THEN Result(w1, "tpm2_nvwrite error", c1 \o <<Call("tpm2_nvwrite", FALSE)>>)
       ELSE Result([w1 EXCEPT !.nvSlot = createPasswordInput(password, FALSE)], Nil,
                   c1 \o <<Call("tpm2_nvwrite", TRUE)>>)

\* the escrow block without the removal of an existing entry
escrow_noremove(w, password, e) ==
    LET s == storePasswordInTPM(w, password, e)
    IN Result(s.w, IF s.err = Nil THEN Nil ELSE "failed to store password in TPM",
              s.calls)

\* the escrow block of CreateLUKSVolume: removePasswordFromTPM, its error
\* only logged, then storePasswordInTPM
escrow(w, password, e) ==
    LET r == removePasswordFromTPM(w, e)
        s == storePasswordInTPM(r.w, password, e)
    IN Result(s.w, IF s.err = Nil THEN Nil ELSE "failed to store password in TPM",
              r.calls \o s.calls)

\* luksFormat: the password is written to a file luks-password-* in the temp
\* directory, cryptsetup luksFormat takes it with --key-file (the whole file
\* is the key), the deferred os.Remove deletes the file, its error dropped.
\* A new container holds no filesystem.
luksFormat(w, password, e) ==
    LET w1 == [w EXCEPT !.tmpFile = password]
        c1 == <<Call("CreateTemp", TRUE), Call("Write luks-password", TRUE)>>
        ok == w1.volumeFile /\ e.format
        w2 == IF ok THEN [w1 EXCEPT !.luksHeader = w1.tmpFile, !.owner = <<>>] ELSE w1
        w3 == IF e.rmtmp THEN [w2 EXCEPT !.tmpFile = <<>>] ELSE w2
        c3 == c1 \o <<Call("luksFormat --key-file", ok),
                      Call("Remove luks-password", e.rmtmp)>>
    IN IF ~e.mktemp
       THEN Result(w, "failed to create temporary file", <<Call("CreateTemp", FALSE)>>)
       ELSE Result(w3, IF ok THEN Nil ELSE "failed to format LUKS volume", c3)

\* escrow after the container-format operation
CreateTail_formatfirst(w, password, tpm, e) ==
    LET f == luksFormat(w, password, e)
        s == escrow(f.w, password, e)
    IN IF f.err # Nil THEN Result(f.w, "failed to format LUKS volume", f.calls)
       ELSE IF tpm /\ s.err # Nil THEN Result(s.w, s.err, f.calls \o s.calls)
       ELSE IF tpm THEN Result(s.w, Nil, f.calls \o s.calls)
       ELSE Result(f.w, Nil, f.calls)

\* CreateLUKSVolume after the sparse file: the escrow with UseTPM, whose
\* failure ends the call, then luksFormat
CreateTail(w, password, tpm, e) ==
    LET s == escrow(w, password, e)
        w1 == IF tpm THEN s.w ELSE w
        c1 == IF tpm THEN s.calls ELSE <<>>
        f == luksFormat(w1, password, e)
    IN IF tpm /\ s.err # Nil THEN Result(s.w, s.err, s.calls)
       ELSE IF f.err # Nil THEN Result(f.w, "failed to format LUKS volume", c1 \o f.calls)
       ELSE Result(f.w, Nil, c1 \o f.calls)

\* CreateLUKSVolume that checks the size after the sparse file is made
CreateLUKSVolume_latecheck(w, password, sizeMB, tpm, e) ==
    LET c == createSparseFile(w, sizeMB, e)
        t == CreateTail(c.w, password, tpm, e)
    IN IF c.err # Nil THEN Result(c.w, "failed to create sparse file", c.calls)
       ELSE IF sizeMB < MinSize \/ sizeMB > MaxSize
       THEN Result(c.w, "size must be between 1MB and 10MB", c.calls)
       ELSE Result(t.w, t.err, c.calls \o t.calls)

\* CreateLUKSVolume
CreateLUKSVolume(w, password, sizeMB, tpm, e) ==
    LET c == createSparseFile(w, sizeMB, e)
        t == CreateTail(c.w, password, tpm, e)
    IN IF sizeMB < MinSize \/ sizeMB > MaxSize
       THEN Result(w, "size must be between 1MB and 10MB", <<>>)
       ELSE IF c.err # Nil THEN Result(c.w, "failed to create sparse file", c.calls)
       ELSE Result(t.w, t.err, c.calls \o t.calls)

\* BootstrapToken.Validate
Validate(token) ==
    IF token.TokenId = "" THEN "bootstrap.token-id is required"
    ELSE IF token.Version = "" THEN "bootstrap.version is required"
    ELSE Nil

\* readBootstrapToken that does not validate the loaded token
readBootstrapToken_novalidate(token) ==
    IF ~token.loaded THEN "Failed to load bootstrap file" ELSE Nil

\* readBootstrapToken: LoadBootstrap and Validate, log.Fatalf on either error
readBootstrapToken(token) ==
    IF ~token.loaded THEN "Failed to load bootstrap file"
    ELSE IF Validate(token) # Nil THEN "Invalid configuration"
    ELSE Nil

\* SetupLUKSVolume that does not look for the TPM device
SetupCheckTPM_nocheck(w, tpm, tpmDev, e) ==
    Result(w, Nil, <<>>)

\* the TPM check of SetupLUKSVolume: with UseTPM a device reported missing
\* is an error, an error of the check itself is only logged
SetupCheckTPM(w, tpm, tpmDev, e) ==
    LET a == checkTPM2Availability(tpmDev, e)
        c == <<Call("Stat /dev/tpmrm0", a.err = Nil)>>
    IN IF ~tpm THEN Result(w, Nil, <<>>)
       ELSE IF a.err = Nil /\ ~a.avail
       THEN Result(w, "TPM 2.0 not availabile on this system", c)
       ELSE Result(w, Nil, c)

\* writeKeyToFile: os.Create of the key file, which empties an existing
\* one, and the write of the password
writeKeyToFile(w, path, password, e) ==
    LET c1 == <<Call("Create keyfile", TRUE)>>
    IN IF Len(password) = 0
       THEN Result(w, "key field in LUKS structure is empty", <<>>)
       ELSE IF path = <<>> \/ ~e.create
       THEN Result(w, "failed to create file", <<Call("Create keyfile", FALSE)>>)
       ELSE IF ~e.write
       THEN Result([w EXCEPT !.keyfile = <<>>], "failed to write key to file",
                   c1 \o <<Call("Write keyfile", FALSE)>>)
       ELSE Result([w EXCEPT !.keyfile = password], Nil,
                   c1 \o <<Call("Write keyfile", TRUE)>>)

\* readKeyFromFile that drops a newline at the end of the file
readKeyFromFile_trim(w, path, e) ==
    LET n == Len(w.keyfile)
        data == IF n > 0 /\ w.keyfile[n] = LF THEN SubSeq(w.keyfile, 1, n - 1)
                ELSE w.keyfile
    IN IF path = <<>> \/ ~e.read
       THEN [key |-> <<>>, err |-> "failed to open key file"]
       ELSE IF Len(data) = 0 THEN [key |-> <<>>, err |-> "key file is empty"]
       ELSE [key |-> data, err |-> Nil]

\* readKeyFromFile: the whole key file, an empty one is an error
readKeyFromFile(w, path, e) ==
    IF path = <<>> \/ ~e.read
    THEN [key |-> <<>>, err |-> "failed to open key file"]
    ELSE IF Len(w.keyfile) = 0 THEN [key |-> <<>>, err |-> "key file is empty"]
    ELSE [key |-> w.keyfile, err |-> Nil]

\* the mount command: the key file without UseTPM, OpenLUKSVolume,
\* MountLUKSVolume, log.Fatalf at the first error
mountCommand(w, tpm, c, e) ==
    LET k == readKeyFromFile(w, c.Keyfile, e)
        pw == IF tpm THEN c.Password ELSE k.key
        o == OpenLUKSVolume(w, tpm, pw, c.PasswordLength, e)
        m == MountLUKSVolume(o.w, c.User, c.Group, e)
    IN IF ~tpm /\ k.err # Nil THEN Result(w, "Failed to read key from file", <<>>)
       ELSE IF o.err # Nil THEN Result(o.w, o.err, o.calls)
       ELSE Result(m.w, m.err, o.calls \o m.calls)

\* the steps with FormatLUKSVolume ahead of OpenLUKSVolume
SetupOrder_formatfirst ==
    <<"authorize", "checkTPM", "GenerateLUKSKey", "CreateLUKSVolume",
      "FormatLUKSVolume", "OpenLUKSVolume", "MountLUKSVolume", "writeKeyToFile">>

\* the order of the steps of the authorize command: main and authorize up
\* to readBootstrapToken, then SetupLUKSVolume, then the key file
SetupOrder ==
    <<"authorize", "checkTPM", "GenerateLUKSKey", "CreateLUKSVolume",
      "OpenLUKSVolume", "FormatLUKSVolume", "MountLUKSVolume", "writeKeyToFile">>

\* the step after step in order, "idle" after the last one
Successor(order, step) ==
    LET i == CHOOSE j \in 1..Len(order) : order[j] = step
    IN IF i = Len(order) THEN "idle" ELSE order[i + 1]

\* a command that goes on to its next step whatever the step returned
After_continue(step, err) == Successor(SetupOrder, step)

\* where the command is after a step: log.Fatalf ends the process at the
\* first error, otherwise the next step runs
After(step, err) ==
    IF err # Nil THEN "idle" ELSE Successor(SetupOrder, step)

----------------------------------------------------------------------------
(* Initial states: a provisioned volume after boot, not yet opened *)

\* lines other volumes left in the tables
RootLine ==
    <<"UUID=", "9c2e", SP, "/", SP, "ext4", SP, "defaults", SP, "0", SP, "1", NL>>
DataLine ==
    <<"UUID=", "77aa", SP, "/", "mnt", "/", "vol", "2", SP, "ext4", SP, "defaults",
      SP, "0", SP, "2", NL>>
SwapLine ==
    <<"swap", SP, "/", "dev", "/", "sda2", SP, "/", "dev", "/", "urandom", SP, "swap", NL>>
BackupLine ==
    <<"udm", "2", SP, "/", "var", "/", "vol2.img", SP, "none", SP, "luks", NL>>

\* the tables the host starts with: [fstab, crypttab], every line terminated
TableInits ==
    { [fstab |-> RootLine \o DataLine, crypttab |-> SwapLine \o BackupLine],
      [fstab |-> fstabEntry(FsUUID) \o RootLine \o fstabEntry(FsUUID),
       crypttab |-> crypttabEntry(TRUE, KeyFile) \o SwapLine \o crypttabEntry(TRUE, KeyFile)] }

Init ==
    /\ useTPM \in BOOLEAN
    /\ hasTPM = useTPM
    /\ mappings = 0
    /\ mounted = FALSE
    /\ mountDir = TRUE
    /\ volumeFile = TRUE
    /\ nvSlot = IF useTPM THEN LuksKey ELSE <<>>
    /\ \E t \in TableInits : fstab = t.fstab /\ crypttab = t.crypttab
    /\ fileSize = DefaultSize * MiB
    /\ luksHeader = LuksKey
    /\ owner = <<User, Group>>
    /\ keyfile = IF useTPM THEN <<>> ELSE LuksKey
    /\ tmpFile = <<>>
    /\ cfg = Descriptor(DefaultSize, PasswordLength, User, Group)
    /\ pc = "idle"
    /\ run = <<>>
    /\ NoSignals
    /\ NoSteps
    /\ last = [op |-> "init", err |-> Nil, calls |-> <<>>, pre |-> World,
               io |-> NoIO, arg |-> 0, out |-> <<>>, again |-> FALSE]

----------------------------------------------------------------------------
(* Delegate outcomes and inputs *)

UnmountEnv == [umount : BOOLEAN, lazy : BOOLEAN]
CloseEnv == [close : BOOLEAN]
UnmountCloseEnv == [umount : BOOLEAN, lazy : BOOLEAN, close : BOOLEAN]
TeardownEnv ==
    [umount : BOOLEAN, lazy : BOOLEAN, close : BOOLEAN, rmdir : BOOLEAN,
     rmfile : BOOLEAN, nvundefine : BOOLEAN]
OpenEnv == [close : BOOLEAN, nvread : BOOLEAN, open : BOOLEAN]
MountEnv == [mkdir : BOOLEAN, mount : BOOLEAN, chown : BOOLEAN]
TableEnv == [lsblk : BOOLEAN, blkid : BOOLEAN, blkidEmpty : BOOLEAN]
MountStateEnv == [lsblk : BOOLEAN]
FileIO == [first : BOOLEAN, second : BOOLEAN]
ByteSamples == {0, 10, 255}
KeyEnv ==
    [statErr : BOOLEAN, run : BOOLEAN, out : {"hex", "hexnl", "odd", "bad"},
     byte : ByteSamples]
LengthInputs == -1..MaxLength

\* the number of lines of a table
LineCount(content) == Len(ScanLines(content))

----------------------------------------------------------------------------
(* Actions: one call of an exported function *)

DoUnmountLUKSVolume ==
    \E e \in UnmountEnv :
        Commit("UnmountLUKSVolume", UnmountLUKSVolume(World, e), NoIO, 0, <<>>)

DoCloseLUKSVolume ==
    \E e \in CloseEnv :
        Commit("CloseLUKSVolume", CloseLUKSVolume(World, e), NoIO, 0, <<>>)

DoUnmountAndCloseLUKSVolume ==
    \E e \in UnmountCloseEnv, c \in {NilLUKS, cfg} :
        Commit("UnmountAndCloseLUKSVolume", UnmountAndCloseLUKSVolume(c, World, e),
               NoIO, IF c = NilLUKS THEN "nil" ELSE "cfg", <<>>)

DoRemoveLUKSVolume ==
    \E e \in TeardownEnv :
        Commit("RemoveLUKSVolume", RemoveLUKSVolume(World, useTPM, e), NoIO, 0, <<>>)

DoOpenLUKSVolume ==
    \E e \in OpenEnv, password \in {LuksKey, WrongKey} :
        Commit("OpenLUKSVolume",
               OpenLUKSVolume(World, useTPM, password, cfg.PasswordLength, e),
               NoIO, 0, <<>>)

DoMountLUKSVolume ==
    \E e \in MountEnv :
        Commit("MountLUKSVolume", MountLUKSVolume(World, cfg.User, cfg.Group, e),
               NoIO, 0, <<>>)

DoAddPersistentMount ==
    /\ LineCount(fstab) < MaxLines
    /\ LineCount(crypttab) < MaxLines
    /\ \E e \in TableEnv, io \in FileIO :
           Commit("AddPersistentMount",
                  AddPersistentMount(World, useTPM, KeyFile, e, io), io, 0, <<>>)

DoRemovePersistentMount ==
    \E e \in MountStateEnv, io \in FileIO :
        Commit("RemovePersistentMount", RemovePersistentMount(World, e, io),
               io, 0, <<>>)

DoGenerateLUKSKey ==
    /\ last.op = "init"
    /\ \E e \in KeyEnv :
           LET g == GenerateLUKSKey(last.arg, hasTPM, e)
           IN Commit("GenerateLUKSKey", Result(World, g.err, g.calls), e,
                     last.arg, g.key)

Next ==
    \/ DoUnmountLUKSVolume
    \/ DoCloseLUKSVolume
    \/ DoUnmountAndCloseLUKSVolume
    \/ DoRemoveLUKSVolume
    \/ DoOpenLUKSVolume
    \/ DoMountLUKSVolume
    \/ DoAddPersistentMount
    \/ DoRemovePersistentMount

Spec == Init /\ [][Next]_vars

\* GenerateLUKSKey on its own: the requested length is drawn at the start
\* (last.arg), one call applies the function to it
InitKey ==
    /\ useTPM = FALSE
    /\ hasTPM \in BOOLEAN
    /\ mappings = 0
    /\ mounted = FALSE
    /\ mountDir = FALSE
    /\ volumeFile = FALSE
    /\ nvSlot = <<>>
    /\ fstab = <<>>
    /\ crypttab = <<>>
    /\ fileSize = 0
    /\ luksHeader = <<>>
    /\ owner = <<>>
    /\ keyfile = <<>>
    /\ tmpFile = <<>>
    /\ cfg = Descriptor(DefaultSize, PasswordLength, User, Group)
    /\ pc = "idle"
    /\ run = <<>>
    /\ NoSignals
    /\ NoSteps
    /\ \E length \in LengthInputs :
           last = [op |-> "init", err |-> Nil, calls |-> <<>>, pre |-> World,
                   io |-> NoIO, arg |-> length, out |-> <<>>, again |-> FALSE]

NextKey == DoGenerateLUKSKey

SpecKey == InitKey /\ [][NextKey]_vars

----------------------------------------------------------------------------
(* The authorize command, one action per step; the other commands *)

\* A call that returns at its first error runs nothing after the delegate
\* that failed: the outcomes of its delegates are all successes or one
\* failure.  Delegates whose error is dropped (tpm2_nvundefine before the
\* store, the deferred os.Remove) fail independently.
OneFailure(e, delegates) == Cardinality({d \in delegates : ~e[d]}) <= 1

CheckEnv == [statErr : BOOLEAN]
CreateEnv ==
    {e \in [sparse : {"ok", "mkdir", "open", "truncate"}, nvundefine : BOOLEAN,
            nvdefine : BOOLEAN, nvwrite : BOOLEAN, mktemp : BOOLEAN,
            format : BOOLEAN, rmtmp : BOOLEAN] :
        /\ OneFailure(e, {"nvdefine", "nvwrite", "mktemp", "format"})
        /\ e.sparse # "ok" =>
              /\ e.nvundefine /\ e.nvdefine /\ e.nvwrite
              /\ e.mktemp /\ e.format /\ e.rmtmp}
SetupOpenEnv == {e \in OpenEnv : OneFailure(e, {"close", "nvread", "open"})}
FormatEnv == [mkfs : BOOLEAN]
SetupMountEnv == {e \in MountEnv : OneFailure(e, {"mkdir", "mount", "chown"})}
WriteEnv == {e \in [create : BOOLEAN, write : BOOLEAN] : OneFailure(e, {"create", "write"})}
MountCommandEnv ==
    {e \in [read : BOOLEAN, close : BOOLEAN, nvread : BOOLEAN, open : BOOLEAN,
            mkdir : BOOLEAN, mount : BOOLEAN, chown : BOOLEAN] :
        OneFailure(e, {"read", "close", "nvread", "open", "mkdir", "mount", "chown"})}
Tokens ==
    {NoToken} \cup [loaded : {TRUE}, TokenId : {"", "t1"}, Version : {"", "v1"}]
Sizes == {-1, MinSize, MaxSize, MaxSize + 1}
Lengths == {MinKeyLength, PasswordLength, MaxSecretLength + 1}
SetupKeyEnv ==
    {e \in [statErr : BOOLEAN, run : BOOLEAN, out : {"hex", "bad"}, byte : {LF, 255}] :
        (e.statErr => e.run) /\ (~e.run \/ e.statErr => e.out = "hex")}

\* a host without the volume, and the host a completed authorize and an
\* unmount leave
Hosts ==
    { [volumeFile |-> FALSE, fileSize |-> 0, luksHeader |-> <<>>, owner |-> <<>>,
       key |-> <<>>],
      [volumeFile |-> TRUE, fileSize |-> DefaultSize * MiB, luksHeader |-> LuksKey,
       owner |-> <<"udm", "users">>, key |-> LuksKey] }

\* no tpm2 tool succeeds without the TPM device
TPMPresent(ok) == hasTPM \/ ~ok

\* a step of the running authorize command; io: the delegate outcomes the
\* step was given
Step(op, r, io, c, out) ==
    /\ pc = op
    /\ Apply(op, r, io, 0, out)
    /\ pc' = After(op, r.err)
    /\ run' = Append(run, [step |-> op, ok |-> r.err = Nil])
    /\ cfg' = c
    /\ UNCHANGED sigvars
    /\ UNCHANGED stepvars

\* ParseCommandLine and main for the command authorize, and authorize up to
\* readBootstrapToken: ParseCommandLine ends the process when --authorize
\* comes without --keyfile, with or without UseTPM, main when there is no
\* key file and no UseTPM
DoAuthorize ==
    /\ pc = "idle"
    /\ \E token \in Tokens, path \in {<<>>, KeyFile} :
           LET err == IF Len(path) = 0
                      THEN "--keyfile is required for --authorize"
                      ELSE IF ~useTPM /\ Len(path) = 0
                      THEN "--keyfile must be specified when TPM is not used"
                      ELSE readBootstrapToken(token)
           IN /\ Apply("authorize", Result(World, err, <<>>), NoIO, 0, <<>>)
              /\ pc' = After("authorize", err)
              /\ run' = <<[step |-> "authorize", ok |-> err = Nil]>>
              /\ cfg' = [cfg EXCEPT !.Keyfile = path, !.Bootstrap = token,
                                    !.Password = <<>>]
              /\ UNCHANGED sigvars
              /\ UNCHANGED stepvars

DoSetupCheckTPM ==
    \E e \in CheckEnv :
        Step("checkTPM", SetupCheckTPM(World, useTPM, hasTPM, e), e, cfg, <<>>)

DoSetupGenerateLUKSKey ==
    \E e \in SetupKeyEnv :
        LET g == GenerateLUKSKey(cfg.PasswordLength, hasTPM, e)
        IN Step("GenerateLUKSKey", Result(World, g.err, g.calls), NoIO,
                [cfg EXCEPT !.Password = g.key], g.key)

DoSetupCreateLUKSVolume ==
    \E e \in CreateEnv :
        /\ TPMPresent(e.nvundefine \/ e.nvdefine \/ e.nvwrite)
        /\ useTPM \/ (e.nvundefine /\ e.nvdefine /\ e.nvwrite)
        /\ Step("CreateLUKSVolume",
                CreateLUKSVolume(World, cfg.Password, cfg.Size, useTPM, e),
                e, cfg, <<>>)

DoSetupOpenLUKSVolume ==
    \E e \in SetupOpenEnv :
        /\ TPMPresent(e.nvread)
        /\ useTPM \/ e.nvread
        /\ Step("OpenLUKSVolume",
                OpenLUKSVolume(World, useTPM, cfg.Password, cfg.PasswordLength, e),
                NoIO, cfg, <<>>)

DoSetupFormatLUKSVolume ==
    \E e \in FormatEnv :
        Step("FormatLUKSVolume", FormatLUKSVolume(World, e), NoIO, cfg, <<>>)

DoSetupMountLUKSVolume ==
    \E e \in SetupMountEnv :
        Step("MountLUKSVolume", MountLUKSVolume(World, cfg.User, cfg.Group, e),
             NoIO, cfg, <<>>)

\* the end of authorize: the key file without UseTPM, its error dropped
DoWriteKeyToFile ==
    \E e \in WriteEnv :
        LET k == writeKeyToFile(World, cfg.Keyfile, cfg.Password, e)
        IN Step("writeKeyToFile",
                IF useTPM THEN Result(World, Nil, <<>>) ELSE Result(k.w, Nil, k.calls),
                NoIO, cfg, <<>>)

\* the command mount
DoMount ==
    \E e \in MountCommandEnv :
        /\ TPMPresent(e.nvread)
        /\ IF useTPM THEN e.read ELSE e.nvread
        /\ Commit("mount", mountCommand(World, useTPM, cfg, e), NoIO, 0, <<>>)

\* the command unmount
DoUnmount ==
    \E e \in UnmountCloseEnv :
        Commit("unmount", UnmountAndCloseLUKSVolume(cfg, World, e), NoIO, 0, <<>>)

\* the host and the descriptor of the configuration file
InitAuthorize ==
    /\ useTPM \in BOOLEAN
    /\ hasTPM \in BOOLEAN
    /\ mappings = 0
    /\ mounted = FALSE
    /\ fstab = <<>>
    /\ crypttab = <<>>
    /\ tmpFile = <<>>
    /\ \E h \in Hosts :
           /\ volumeFile = h.volumeFile
           /\ mountDir = h.volumeFile
           /\ fileSize = h.fileSize
           /\ luksHeader = h.luksHeader
           /\ owner = h.owner
           /\ nvSlot = IF useTPM /\ hasTPM THEN h.key ELSE <<>>
           /\ keyfile = IF useTPM THEN <<>> ELSE h.key
    /\ \E size \in Sizes, length \in Lengths :
           cfg = Descriptor(size, length, "udm", "users")
    /\ pc = "idle"
    /\ run = <<>>
    /\ NoSignals
    /\ NoSteps
    /\ last = [op |-> "init", err |-> Nil, calls |-> <<>>, pre |-> World,
               io |-> NoIO, arg |-> 0, out |-> <<>>, again |-> FALSE]

NextAuthorize ==
    \/ DoAuthorize
    \/ DoSetupCheckTPM
    \/ DoSetupGenerateLUKSKey
    \/ DoSetupCreateLUKSVolume
    \/ DoSetupOpenLUKSVolume
    \/ DoSetupFormatLUKSVolume
    \/ DoSetupMountLUKSVolume
    \/ DoWriteKeyToFile
    \/ DoMount
    \/ DoUnmount

SpecAuthorize == InitAuthorize /\ [][NextAuthorize]_vars

\* MountLUKSVolume as a function of the package: any descriptor, a
\* provisioned volume
Names == {"", "root", "udm"}

InitMount ==
    /\ useTPM \in BOOLEAN
    /\ hasTPM = useTPM
    /\ mappings = 0
    /\ mounted = FALSE
    /\ mountDir \in BOOLEAN
    /\ volumeFile = TRUE
    /\ nvSlot = IF useTPM THEN LuksKey ELSE <<>>
    /\ fstab = <<>>
    /\ crypttab = <<>>
    /\ fileSize = DefaultSize * MiB
    /\ luksHeader = LuksKey
    /\ owner = <<"root", "root">>
    /\ keyfile = IF useTPM THEN <<>> ELSE LuksKey
    /\ tmpFile = <<>>
    /\ \E user \in Names, group \in Names :
           cfg = Descriptor(DefaultSize, PasswordLength, user, group)
    /\ pc = "idle"
    /\ run = <<>>
    /\ NoSignals
    /\ NoSteps
    /\ last = [op |-> "init", err |-> Nil, calls |-> <<>>, pre |-> World,
               io |-> NoIO, arg |-> 0, out |-> <<>>, again |-> FALSE]

NextMount ==
    \/ DoOpenLUKSVolume
    \/ DoMountLUKSVolume
    \/ DoUnmountLUKSVolume
    \/ DoCloseLUKSVolume

SpecMount == InitMount /\ [][NextMount]_vars

----------------------------------------------------------------------------
(* main from LoadConfig on: the configuration file, then commands *)

\* AppConfig.Validate: the required fields, root for a missing user or group
AppConfigValidate(c) ==
    IF c.VolumePath = <<>> THEN [cfg |-> c, err |-> "luks.volume-path is required"]
    ELSE IF c.MapperName = <<>> THEN [cfg |-> c, err |-> "luks.mapper-name is required"]
    ELSE IF c.MountPoint = <<>> THEN [cfg |-> c, err |-> "luks.mount-point is required"]
    ELSE IF c.PasswordLength = 0
    THEN [cfg |-> c, err |-> "luks.password-length is required"]
    ELSE IF c.Size = 0 THEN [cfg |-> c, err |-> "luks.size (MB) is required"]
    ELSE [cfg |-> [c EXCEPT !.User = IF @ = "" THEN "root" ELSE @,
                            !.Group = IF @ = "" THEN "root" ELSE @],
          err |-> Nil]

\* LoadConfig that returns the configuration without validating it
LoadConfig_novalidate(c, e) ==
    IF ~e.load THEN [cfg |-> c, err |-> "failed to open file"]
    ELSE [cfg |-> c, err |-> Nil]

\* LoadConfig: the file is opened and decoded into c, then validated
LoadConfig(c, e) ==
    LET v == AppConfigValidate(c)
    IN IF ~e.load THEN [cfg |-> c, err |-> "failed to open file"]
       ELSE IF v.err # Nil THEN [cfg |-> c, err |-> "invalid configuration"]
       ELSE [cfg |-> v.cfg, err |-> Nil]

\* what the configuration file may hold: every field there or missing
RawConfigs ==
    {[Descriptor(size, length, user, group)
        EXCEPT !.Keyfile = KeyFile] @@ [VolumePath |-> vp, MapperName |-> mn,
                                        MountPoint |-> mp] :
        size \in {0, DefaultSize}, length \in {0, PasswordLength},
        user \in {"", "udm"}, group \in {"", "users"},
        vp \in {<<>>, VolumePath}, mn \in {<<>>, MapperName},
        mp \in {<<>>, MountPoint}}

\* main up to the switch: log.Fatalf when LoadConfig fails
DoLoadConfig ==
    /\ pc = "LoadConfig"
    /\ \E e \in [load : BOOLEAN] :
           LET l == LoadConfig(cfg, e)
           IN /\ Apply("LoadConfig", Result(World, l.err, <<>>), e, cfg, <<>>)
              /\ cfg' = l.cfg
              /\ pc' = IF l.err # Nil THEN "exited" ELSE "idle"
    /\ UNCHANGED run
    /\ UNCHANGED sigvars
    /\ UNCHANGED stepvars

\* a provisioned volume, the process at the start of main
InitConfig ==
    /\ useTPM \in BOOLEAN
    /\ hasTPM = useTPM
    /\ mappings = 0
    /\ mounted = FALSE
    /\ mountDir = TRUE
    /\ volumeFile = TRUE
    /\ nvSlot = IF useTPM THEN LuksKey ELSE <<>>
    /\ fstab = <<>>
    /\ crypttab = <<>>
    /\ fileSize = DefaultSize * MiB
    /\ luksHeader = LuksKey
    /\ owner = <<"root", "root">>
    /\ keyfile = IF useTPM THEN <<>> ELSE LuksKey
    /\ tmpFile = <<>>
    /\ cfg \in RawConfigs
    /\ pc = "LoadConfig"
    /\ run = <<>>
    /\ NoSignals
    /\ NoSteps
    /\ last = [op |-> "init", err |-> Nil, calls |-> <<>>, pre |-> World,
               io |-> NoIO, arg |-> 0, out |-> <<>>, again |-> FALSE]

NextConfig ==
    \/ DoLoadConfig
    \/ DoMount
    \/ DoUnmount
    \/ DoRemoveLUKSVolume

SpecConfig == InitConfig /\ [][NextConfig]_vars

----------------------------------------------------------------------------
(* writeKeyToFile and readKeyFromFile on any secret: one write, then one read *)

\* the secrets: every byte string up to MaxSecret bytes of these bytes
Secrets == UNION {[1..n -> {0, LF, 255}] : n \in 0..MaxSecret}

DoWriteKey ==
    /\ pc = "writeKeyToFile"
    /\ \E e \in WriteEnv :
           LET k == writeKeyToFile(World, cfg.Keyfile, cfg.Password, e)
           IN /\ Apply("writeKeyToFile", k, e, 0, <<>>)
              /\ pc' = "readKeyFromFile"
              /\ run' = <<[step |-> "writeKeyToFile", ok |-> k.err = Nil]>>
    /\ UNCHANGED cfg
    /\ UNCHANGED sigvars
    /\ UNCHANGED stepvars

DoReadKey ==
    /\ pc = "readKeyFromFile"
    /\ \E e \in [read : BOOLEAN] :
           LET k == readKeyFromFile(World, cfg.Keyfile, e)
           IN /\ Apply("readKeyFromFile", Result(World, k.err, <<>>), e, 0, k.key)
              /\ pc' = "idle"
              /\ run' = Append(run, [step |-> "readKeyFromFile", ok |-> k.err = Nil])
    /\ UNCHANGED cfg
    /\ UNCHANGED sigvars
    /\ UNCHANGED stepvars

\* a secret in the descriptor, no key file or an older one
InitKeyfile ==
    /\ useTPM = FALSE
    /\ hasTPM = FALSE
    /\ mappings = 0
    /\ mounted = FALSE
    /\ mountDir = FALSE
    /\ volumeFile = FALSE
    /\ nvSlot = <<>>
    /\ fstab = <<>>
    /\ crypttab = <<>>
    /\ fileSize = 0
    /\ luksHeader = <<>>
    /\ owner = <<>>
    /\ keyfile \in {<<>>, LuksKey}
    /\ tmpFile = <<>>
    /\ \E secret \in Secrets :
           cfg = [Descriptor(DefaultSize, PasswordLength, User, Group)
                   EXCEPT !.Password = secret]
    /\ pc = "writeKeyToFile"
    /\ run = <<>>
    /\ NoSignals
    /\ NoSteps
    /\ last = [op |-> "init", err |-> Nil, calls |-> <<>>, pre |-> World,
               io |-> NoIO, arg |-> 0, out |-> <<>>, again |-> FALSE]

NextKeyfile ==
    \/ DoWriteKey
    \/ DoReadKey

SpecKeyfile == InitKeyfile /\ [][NextKeyfile]_vars

----------------------------------------------------------------------------
(* The signal handler of the program that stays resident after authorize *)

\* CleanupLUKSVolume, the teardown of the handler of cmd/udm/main.go:
\* unmount, close, remove the mount directory, returning at the first error
CleanupLUKSVolume(w, e) ==
    LET r1 == UnmountLUKSVolume(w, e)
        r2 == CloseLUKSVolume(r1.w, e)
        r3 == RemoveAllMountPoint(r2.w, e)
    IN IF r1.err # Nil THEN Result(r1.w, "failed to unmount LUKS volume", r1.calls)
       ELSE IF r2.err # Nil
       THEN Result(r2.w, "failed to close LUKS volume", r1.calls \o r2.calls)
       ELSE IF r3.err # Nil
       THEN Result(r3.w, "failed to remove mount directory",
                   r1.calls \o r2.calls \o r3.calls)
       ELSE Result(r3.w, Nil, r1.calls \o r2.calls \o r3.calls)

CleanupEnv ==
    {e \in [umount : BOOLEAN, lazy : BOOLEAN, close : BOOLEAN, rmdir : BOOLEAN] :
        (e.umount => e.lazy) /\ OneFailure(e, {"lazy", "close", "rmdir"})}

\* a handler that waits for the next signal after a failed cleanup
AfterCleanup_retry(err) == IF err # Nil THEN "recv" ELSE "exit"

\* the goroutine after the cleanup: the error is logged, os.Exit(0) follows
AfterCleanup(err) == "exit"

\* the process is running
Alive == pc \notin {"killed", "exited"}

\* setupSignalHandler: signal.Notify on a channel of capacity 1 and the go
\* statement; main goes on to select {}
DoSetupSignalHandler ==
    /\ pc = "setupSignalHandler"
    /\ pc' = "select"
    /\ handler' = "recv"
    /\ UNCHANGED <<useTPM, hasTPM, mappings, mounted, mountDir, volumeFile, nvSlot,
                   fstab, crypttab, last, fileSize, luksHeader, owner, keyfile,
                   tmpFile, cfg, run, sigChan, signals, teardowns>>
    /\ UNCHANGED stepvars

\* SIGINT or SIGTERM sent to the process: before signal.Notify it ends the
\* process, afterwards it goes into the channel, or nowhere when the channel
\* is full
DoSignal ==
    /\ Alive
    /\ signals < MaxSignals
    /\ signals' = signals + 1
    /\ IF handler = "off"
       THEN pc' = "killed" /\ UNCHANGED sigChan
       ELSE /\ sigChan' = IF sigChan < ChanCap THEN sigChan + 1 ELSE sigChan
            /\ UNCHANGED pc
    /\ UNCHANGED <<useTPM, hasTPM, mappings, mounted, mountDir, volumeFile, nvSlot,
                   fstab, crypttab, last, fileSize, luksHeader, owner, keyfile,
                   tmpFile, cfg, run, handler, teardowns>>
    /\ UNCHANGED stepvars

\* <-c in the goroutine
DoReceive ==
    /\ Alive
    /\ handler = "recv"
    /\ sigChan > 0
    /\ sigChan' = sigChan - 1
    /\ handler' = "cleanup"
    /\ teardowns' = teardowns + 1
    /\ UNCHANGED <<useTPM, hasTPM, mappings, mounted, mountDir, volumeFile, nvSlot,
                   fstab, crypttab, last, fileSize, luksHeader, owner, keyfile,
                   tmpFile, cfg, pc, run, signals>>
    /\ UNCHANGED stepvars

\* the cleanup call of the goroutine: CleanupLUKSVolume in
\* cmd/udm/main.go, UnmountAndCloseLUKSVolume in the later program
DoCleanup ==
    /\ Alive
    /\ handler = "cleanup"
    /\ \E e \in CleanupEnv :
       \E r \in {CleanupLUKSVolume(World, e),
                  UnmountAndCloseLUKSVolume(cfg, World, e)} :
           /\ Apply("cleanup", r, NoIO, 0, <<>>)
           /\ handler' = AfterCleanup(r.err)
    /\ UNCHANGED <<cfg, pc, run, sigChan, signals, teardowns>>
    /\ UNCHANGED stepvars

\* os.Exit(0) in the goroutine
DoExit ==
    /\ Alive
    /\ handler = "exit"
    /\ handler' = "exited"
    /\ pc' = "exited"
    /\ UNCHANGED <<useTPM, hasTPM, mappings, mounted, mountDir, volumeFile, nvSlot,
                   fstab, crypttab, last, fileSize, luksHeader, owner, keyfile,
                   tmpFile, cfg, run, sigChan, signals, teardowns>>
    /\ UNCHANGED stepvars

\* main after a provisioning that succeeded, about to call
\* setupSignalHandler: the volume is mounted
InitSignal ==
    /\ useTPM \in BOOLEAN
    /\ hasTPM = useTPM
    /\ mappings = 1
    /\ mounted = TRUE
    /\ mountDir = TRUE
    /\ volumeFile = TRUE
    /\ nvSlot = IF useTPM THEN LuksKey ELSE <<>>
    /\ fstab = <<>>
    /\ crypttab = <<>>
    /\ fileSize = DefaultSize * MiB
    /\ luksHeader = LuksKey
    /\ owner = <<User, Group>>
    /\ keyfile = <<>>
    /\ tmpFile = <<>>
    /\ cfg = [Descriptor(DefaultSize, PasswordLength, User, Group)
                EXCEPT !.Password = LuksKey]
    /\ pc = "setupSignalHandler"
    /\ run = <<>>
    /\ NoSignals
    /\ NoSteps
    /\ last = [op |-> "init", err |-> Nil, calls |-> <<>>, pre |-> World,
               io |-> NoIO, arg |-> 0, out |-> <<>>, again |-> FALSE]

NextSignal ==
    \/ DoSetupSignalHandler
    \/ DoSignal
    \/ DoReceive
    \/ DoCleanup
    \/ DoExit

SpecSignal == InitSignal /\ [][NextSignal]_vars

----------------------------------------------------------------------------
(* removeLineFromFile statement by statement: pc is the statement about to *)
(* run, last the record of the call that is running or has returned        *)

\* the statements with os.Rename ahead of writer.Flush
RewriteOrder_renamefirst ==
    <<"os.Open", "os.Create", "Scan", "os.Rename", "Flush", "tempFile.Close",
      "file.Close", "deferred">>

\* the statements of removeLineFromFile in the order of the code; Scan is
\* the loop, deferred the two deferred calls
RewriteOrder ==
    <<"os.Open", "os.Create", "Scan", "Flush", "tempFile.Close", "file.Close",
      "os.Rename", "deferred">>

\* the content of the table at path
Table(w, path) == IF path = "/etc/fstab" THEN w.fstab ELSE w.crypttab

\* the calls removeLineFromFile is made with (RemovePersistentMount)
RewriteCalls ==
    {[path |-> "/etc/fstab", token |-> MountPoint],
     [path |-> "/etc/crypttab", token |-> MapperName]}

\* one statement of the running call: the tables, the temporary file and
\* the call afterwards, the call made and the error the statement returns
\* with (Nil: the next statement runs)
Statement(step, ok, f, c, t, s, err) ==
    /\ pc = step
    /\ fstab' = f
    /\ crypttab' = c
    /\ tempFile' = t
    /\ scan' = [s EXCEPT !.err = err]
    /\ last' = [last EXCEPT !.calls = Append(@, Call(step, ok)), !.err = err]
    /\ pc' = IF err = Nil THEN Successor(RewriteOrder, step)
             ELSE IF s.fileOpen \/ s.cleanup THEN "deferred" ELSE "idle"
    /\ UNCHANGED <<useTPM, hasTPM, mappings, mounted, mountDir, volumeFile,
                   nvSlot, fileSize, luksHeader, owner, keyfile, tmpFile, cfg,
                   run, pipe, writer, child>>
    /\ UNCHANGED sigvars

\* the call: RemovePersistentMount calls removeLineFromFile for a table
DoRemoveLineFromFile ==
    /\ pc = "idle"
    /\ \E a \in RewriteCalls :
           /\ scan' = [NoScan EXCEPT !.path = a.path, !.token = a.token]
           /\ last' = [op |-> "removeLineFromFile", err |-> Nil, calls |-> <<>>,
                       pre |-> World, io |-> NoIO, arg |-> a.path, out |-> <<>>,
                       again |-> FALSE]
    /\ pc' = Head(RewriteOrder)
    /\ UNCHANGED <<useTPM, hasTPM, mappings, mounted, mountDir, volumeFile,
                   nvSlot, fstab, crypttab, fileSize, luksHeader, owner,
                   keyfile, tmpFile, cfg, run, tempFile, pipe, writer, child>>
    /\ UNCHANGED sigvars

\* os.Open(filePath) and defer file.Close()
DoOpenFile ==
    \E ok \in BOOLEAN :
        Statement("os.Open", ok, fstab, crypttab, tempFile,
                  IF ok THEN [scan EXCEPT !.fileOpen = TRUE,
                                          !.lines = ScanLines(Table(World, scan.path))]
                  ELSE scan,
                  IF ok THEN Nil ELSE "failed to open file")

\* os.Create(filePath + ".tmp") and the defer that closes and removes it
DoCreateTemp ==
    \E ok \in BOOLEAN :
        Statement("os.Create", ok, fstab, crypttab,
                  IF ok THEN [exists |-> TRUE, content |-> <<>>] ELSE tempFile,
                  IF ok THEN [scan EXCEPT !.tempOpen = TRUE, !.cleanup = TRUE,
                                          !.tempAt = scan.path \o ".tmp"]
                  ELSE scan,
                  IF ok THEN Nil ELSE "failed to create temporary file")

\* the bytes written through the descriptor of the temporary file go to the
\* file the descriptor is open on, under whatever name it has by now
WriteTemp(s, bytes) ==
    [fstab |-> IF s.tempAt = "/etc/fstab" THEN fstab \o bytes ELSE fstab,
     crypttab |-> IF s.tempAt = "/etc/crypttab" THEN crypttab \o bytes ELSE crypttab,
     tempFile |-> IF s.tempAt = s.path \o ".tmp"
                  THEN [tempFile EXCEPT !.content = @ \o bytes] ELSE tempFile]

\* one turn of the loop: scanner.Scan() yields the next line, which goes to
\* the bufio.Writer unless it contains the token, or it ends the loop, at
\* the end of the file or on a read error.  The writer keeps the line in
\* its buffer, or, when the buffer is full, first writes the buffer out.
DoScan ==
    /\ pc = "Scan"
    /\ \E o \in {"buffered", "written", "write failed", "read failed"} :
           IF o = "read failed"
           THEN Statement("Scan", FALSE, fstab, crypttab, tempFile, scan,
                          "error reading file")
           ELSE IF scan.lines = <<>>
           THEN /\ o = "buffered"
                /\ Statement("Scan", TRUE, fstab, crypttab, tempFile, scan, Nil)
           ELSE LET line == Head(scan.lines)
                    rest == [scan EXCEPT !.lines = Tail(@)]
                    w == WriteTemp(scan, scan.buf)
                    Loop(f, c, t, s) ==
                        /\ fstab' = f
                        /\ crypttab' = c
                        /\ tempFile' = t
                        /\ scan' = s
                        /\ UNCHANGED <<useTPM, hasTPM, mappings, mounted, mountDir,
                                       volumeFile, nvSlot, fileSize, luksHeader,
                                       owner, keyfile, tmpFile, cfg, run, pipe,
                                       writer, child, pc, last>>
                        /\ UNCHANGED sigvars
                IN IF Contains(line, scan.token)
                   THEN /\ o = "buffered"
                        /\ Loop(fstab, crypttab, tempFile, rest)
                   ELSE IF o = "buffered"
                   THEN Loop(fstab, crypttab, tempFile,
                             [rest EXCEPT !.buf = @ \o line \o <<NL>>])
                   ELSE IF o = "written"
                   THEN /\ scan.buf # <<>>
                        /\ Loop(w.fstab, w.crypttab, w.tempFile,
                                [rest EXCEPT !.buf = line \o <<NL>>])
                   ELSE /\ scan.buf # <<>>
                        /\ Statement("Scan", FALSE, fstab, crypttab, tempFile, rest,
                                     "failed to write to temporary file")

\* writer.Flush()
DoFlush ==
    \E ok \in BOOLEAN :
        LET w == WriteTemp(scan, scan.buf)
        IN IF ok
           THEN Statement("Flush", TRUE, w.fstab, w.crypttab, w.tempFile,
                          [scan EXCEPT !.buf = <<>>], Nil)
           ELSE Statement("Flush", FALSE, fstab, crypttab, tempFile, scan,
                          "failed to flush data to temporary file")

\* tempFile.Close()
DoCloseTemp ==
    \E ok \in BOOLEAN :
        Statement("tempFile.Close", ok, fstab, crypttab, tempFile,
                  [scan EXCEPT !.tempOpen = FALSE],
                  IF ok THEN Nil ELSE "failed to close temporary file")

\* file.Close()
DoCloseFile ==
    \E ok \in BOOLEAN :
        Statement("file.Close", ok, fstab, crypttab, tempFile,
                  [scan EXCEPT !.fileOpen = FALSE],
                  IF ok THEN Nil ELSE "failed to close original file")

\* os.Rename(tempFilePath, filePath): the table is the temporary file from
\* here on, the name <table>.tmp is gone
DoRename ==
    \E ok \in BOOLEAN :
        IF ok
        THEN Statement("os.Rename", TRUE,
                       IF scan.path = "/etc/fstab" THEN tempFile.content ELSE fstab,
                       IF scan.path = "/etc/crypttab" THEN tempFile.content ELSE crypttab,
                       NoFile, [scan EXCEPT !.tempAt = scan.path], Nil)
        ELSE Statement("os.Rename", FALSE, fstab, crypttab, tempFile, scan,
                       "failed to replace original file with temporary file")

\* the deferred calls at the return: tempFile.Close() and
\* os.Remove(tempFilePath) when os.Create had succeeded, then file.Close();
\* the error of the call stays what it was
DoDeferred ==
    /\ pc = "deferred"
    /\ tempFile' = IF scan.cleanup THEN NoFile ELSE tempFile
    /\ scan' = [scan EXCEPT !.fileOpen = FALSE, !.tempOpen = FALSE]
    /\ pc' = "idle"
    /\ UNCHANGED <<useTPM, hasTPM, mappings, mounted, mountDir, volumeFile,
                   nvSlot, fstab, crypttab, last, fileSize, luksHeader, owner,
                   keyfile, tmpFile, cfg, run, pipe, writer, child>>
    /\ UNCHANGED sigvars

\* the tables of a host, the volume not mounted
InitRewrite ==
    /\ useTPM \in BOOLEAN
    /\ hasTPM = useTPM
    /\ mappings = 0
    /\ mounted = FALSE
    /\ mountDir = TRUE
    /\ volumeFile = TRUE
    /\ nvSlot = IF useTPM THEN LuksKey ELSE <<>>
    /\ \E t \in TableInits : fstab = t.fstab /\ crypttab = t.crypttab
    /\ fileSize = DefaultSize * MiB
    /\ luksHeader = LuksKey
    /\ owner = <<User, Group>>
    /\ keyfile = IF useTPM THEN <<>> ELSE LuksKey
    /\ tmpFile = <<>>
    /\ cfg = Descriptor(DefaultSize, PasswordLength, User, Group)
    /\ pc = "idle"
    /\ run = <<>>
    /\ NoSignals
    /\ NoSteps
    /\ last = [op |-> "init", err |-> Nil, calls |-> <<>>, pre |-> World,
               io |-> NoIO, arg |-> 0, out |-> <<>>, again |-> FALSE]

NextRewrite ==
    \/ DoRemoveLineFromFile
    \/ DoOpenFile
    \/ DoCreateTemp
    \/ DoScan
    \/ DoFlush
    \/ DoCloseTemp
    \/ DoCloseFile
    \/ DoRename
    \/ DoDeferred

SpecRewrite == InitRewrite /\ [][NextRewrite]_vars

----------------------------------------------------------------------------
(* createPasswordInput and the command reading the pipe: the goroutine, the *)
(* external command and the caller in cmd.CombinedOutput run concurrently.  *)
(* last is the record of the call that is running or has returned: op the   *)
(* command, arg the password.                                               *)

\* the commands that get their standard input from createPasswordInput:
\* cryptsetup luksOpen (OpenLUKSVolume, with newline) and tpm2_nvwrite
\* (storePasswordInTPM, without)
PipeCommands == {"luksOpen", "tpm2_nvwrite"}

PipeFrame ==
    /\ UNCHANGED <<useTPM, hasTPM, mappings, mounted, mountDir, volumeFile,
                   nvSlot, fstab, crypttab, fileSize, luksHeader, owner,
                   keyfile, tmpFile, cfg, run, tempFile, scan>>
    /\ UNCHANGED sigvars

\* cmd.Stdin = createPasswordInput(password, addNewline): os.Pipe, whose
\* error is dropped, and the go statement.  One call at a time: the next
\* call is made when the goroutine of the call before has ended.
DoCreatePasswordInput ==
    /\ pc = "idle"
    /\ writer \in {"none", "done"}
    /\ \E fn \in PipeCommands, ok \in BOOLEAN :
           /\ pipe' = [buf |-> <<>>, wOpen |-> ok, made |-> ok]
           /\ last' = [op |-> fn, err |-> Nil, calls |-> <<>>, pre |-> World,
                       io |-> NoIO, arg |-> cfg.Password, out |-> <<>>,
                       again |-> FALSE]
    /\ writer' = "Write"
    /\ child' = NoChild
    /\ pc' = "cmd.Start"
    /\ PipeFrame

\* the goroutine: w.Write(password) or w.Write(append(password, '\n')); the
\* pipe takes the few bytes at once, and on a nil file nothing is written
DoWrite ==
    /\ writer = "Write"
    /\ writer' = "Close"
    /\ pipe' = IF pipe.made
               THEN [pipe EXCEPT !.buf = @ \o createPasswordInput(last.arg,
                                                 last.op = "luksOpen")]
               ELSE pipe
    /\ last' = [last EXCEPT !.calls = Append(@, Call("w.Write", pipe.made))]
    /\ UNCHANGED <<pc, child>>
    /\ PipeFrame

\* the goroutine: the deferred w.Close()
DoClose ==
    /\ writer = "Close"
    /\ writer' = "done"
    /\ pipe' = [pipe EXCEPT !.wOpen = FALSE]
    /\ last' = [last EXCEPT !.calls = Append(@, Call("w.Close", pipe.made))]
    /\ UNCHANGED <<pc, child>>
    /\ PipeFrame

\* cmd.CombinedOutput starts the command with the read end as its standard
\* input, or fails to start it and returns
DoStart ==
    /\ pc = "cmd.Start"
    /\ \E ok \in BOOLEAN :
           IF ok
           THEN /\ child' = [child EXCEPT !.at = "running"]
                /\ pc' = "cmd.Wait"
                /\ UNCHANGED last
           ELSE /\ pc' = "idle"
                /\ last' = [last EXCEPT !.err = "failed to start"]
                /\ UNCHANGED child
    /\ UNCHANGED <<pipe, writer>>
    /\ PipeFrame

\* the command reads its standard input: the bytes in the pipe, or the end
\* of the input once the pipe is empty and its write end closed; on an
\* empty pipe that is still open the read waits
DoRead ==
    /\ child.at = "running"
    /\ pipe.buf # <<>> \/ ~pipe.wOpen
    /\ child' = IF pipe.buf # <<>>
                THEN [child EXCEPT !.read = @ \o pipe.buf]
                ELSE [child EXCEPT !.at = "eof"]
    /\ pipe' = [pipe EXCEPT !.buf = <<>>]
    /\ UNCHANGED <<pc, writer, last>>
    /\ PipeFrame

\* the command exits, with or without having read its input
DoChildExit ==
    /\ child.at \in {"running", "eof"}
    /\ child' = [child EXCEPT !.at = "exited"]
    /\ UNCHANGED <<pc, pipe, writer, last>>
    /\ PipeFrame

\* cmd.CombinedOutput returns when the command has exited
DoWait ==
    /\ pc = "cmd.Wait"
    /\ child.at = "exited"
    /\ pc' = "idle"
    /\ \E ok \in BOOLEAN :
           last' = [last EXCEPT !.err = IF ok THEN Nil ELSE "exit status 1",
                                !.out = child.read]
    /\ UNCHANGED <<pipe, writer, child>>
    /\ PipeFrame

\* a password in the descriptor, no call made yet
InitPipe ==
    /\ useTPM \in BOOLEAN
    /\ hasTPM = useTPM
    /\ mappings = 0
    /\ mounted = FALSE
    /\ mountDir = TRUE
    /\ volumeFile = TRUE
    /\ nvSlot = <<>>
    /\ fstab = <<>>
    /\ crypttab = <<>>
    /\ fileSize = DefaultSize * MiB
    /\ luksHeader = <<>>
    /\ owner = <<>>
    /\ keyfile = <<>>
    /\ tmpFile = <<>>
    /\ \E secret \in Secrets \ {<<>>} :
           cfg = [Descriptor(DefaultSize, PasswordLength, User, Group)
                   EXCEPT !.Password = secret]
    /\ pc = "idle"
    /\ run = <<>>
    /\ NoSignals
    /\ NoSteps
    /\ last = [op |-> "init", err |-> Nil, calls |-> <<>>, pre |-> World,
               io |-> NoIO, arg |-> <<>>, out |-> <<>>, again |-> FALSE]

NextPipe ==
    \/ DoCreatePasswordInput
    \/ DoWrite
    \/ DoClose
    \/ DoStart
    \/ DoRead
    \/ DoChildExit
    \/ DoWait

SpecPipe == InitPipe /\ [][NextPipe]_vars

----------------------------------------------------------------------------
(* Properties *)

\* the steps of a teardown: the lazy retry belongs to the unmount step
RECURSIVE Steps(_)
Steps(calls) ==
    IF calls = <<>> THEN <<>>
    ELSE (IF Head(calls).fn = "umount -l" THEN <<>> ELSE <<Head(calls).fn>>)
           \o Steps(Tail(calls))

Called(fn) == \E i \in 1..Len(last.calls) : last.calls[i].fn = fn

TablesUnchanged == fstab = last.pre.fstab /\ crypttab = last.pre.crypttab

\* C1: RemoveLUKSVolume attempts unmount, close, delete mount directory,
\* delete backing file and, only with hardware escrow, erase the escrowed
\* secret, in this order, each step exactly once whatever the earlier steps
\* returned, and it returns nil.
C1_RemoveAttemptsEveryStep ==
    last.op = "RemoveLUKSVolume" =>
        /\ last.err = Nil
        /\ Steps(last.calls) =
             <<"umount", "luksClose", "RemoveAll", "Remove">>
               \o (IF useTPM THEN <<"tpm2_nvundefine">> ELSE <<>>)
        /\ Len(last.calls) - Len(Steps(last.calls)) <= 1

\* C1 witness: a teardown in hardware-escrow mode whose unmount failed twice
\* and whose close failed, and which still deleted the backing file and
\* erased the secret
C1_Witness ==
    /\ last.op = "RemoveLUKSVolume"
    /\ useTPM
    /\ last.pre.mounted /\ mounted
    /\ last.calls[1] = Call("umount", FALSE)
    /\ last.calls[2] = Call("umount -l", FALSE)
    /\ last.calls[3] = Call("luksClose", FALSE)
    /\ last.pre.volumeFile /\ ~volumeFile
    /\ last.pre.nvSlot # <<>> /\ nvSlot = <<>>

\* C2: there is never more than one active mapping of the configured name,
\* and an OpenLUKSVolume that finds a mapping and goes on to unlock has
\* closed that mapping first.
C2_OneMappingPerName ==
    /\ mappings <= 1
    /\ (last.op = "OpenLUKSVolume" /\ last.pre.mappings > 0 /\ Called("luksOpen"))
         => (last.calls[1] = Call("luksClose", TRUE)
             /\ \A i \in 1..Len(last.calls) :
                  last.calls[i].fn = "luksOpen" => i > 1)

\* C2 witness: a successful re-open of an open mapping
C2_Witness ==
    /\ last.op = "OpenLUKSVolume"
    /\ last.pre.mappings = 1
    /\ last.err = Nil
    /\ mappings = 1

\* C3: AddPersistentMount on a volume that is not mounted at the mount
\* point returns the error of the mount-state guard and leaves /etc/crypttab
\* and /etc/fstab as they were.
C3_AddNeedsMountedVolume ==
    (last.op = "AddPersistentMount" /\ ~last.pre.mounted) =>
        /\ last.err \in {"LUKS volume is not mounted",
                         "failed to check if LUKS volume is mounted"}
        /\ TablesUnchanged

\* C3 witness: AddPersistentMount on an open mapping that is not mounted
C3_Witness ==
    /\ last.op = "AddPersistentMount"
    /\ last.pre.mappings = 1 /\ ~last.pre.mounted
    /\ last.err = "LUKS volume is not mounted"
    /\ last.io = NoIO

\* C4: RemovePersistentMount on a mounted volume fails and leaves both
\* tables as they were.
C4_RemoveRefusesMountedVolume ==
    (last.op = "RemovePersistentMount" /\ last.pre.mounted) =>
        /\ last.err # Nil
        /\ TablesUnchanged

\* C4 witness: RemovePersistentMount refused on a mounted volume whose
\* lines are in both tables
C4_Witness ==
    /\ last.op = "RemovePersistentMount"
    /\ last.pre.mounted
    /\ last.err = "LUKS volume is mounted, please unmount first"
    /\ last.io = NoIO
    /\ Contains(fstab, MountPoint)
    /\ Contains(crypttab, MapperName)

\* no line of the file contains token
NoLineWith(content, token) ==
    \A i \in 1..Len(ScanLines(content)) : ~Contains(ScanLines(content)[i], token)

\* C5: whenever the volume is not mounted, with the mapping open or already
\* closed, RemovePersistentMount (its file operations not failing) succeeds
\* and leaves no mount-table line with the mount point and no unlock-table
\* line with the mapped name.
C5_RemoveProceedsWhenNotMounted ==
    (last.op = "RemovePersistentMount" /\ ~last.pre.mounted /\ last.io = NoIO) =>
        /\ last.err = Nil
        /\ NoLineWith(fstab, MountPoint)
        /\ NoLineWith(crypttab, MapperName)

\* C6: a RemovePersistentMount that directly follows a successful one
\* leaves both tables exactly as that one left them, and it succeeds
\* (lsblk and the file operations not failing).
C6_RemoveIdempotent ==
    (last.op = "RemovePersistentMount" /\ last.again) =>
        /\ TablesUnchanged
        /\ (last.calls[1].ok /\ last.io = NoIO) => last.err = Nil

\* C6 witness: the second of two successful runs, the first of which had
\* removed lines
C6_Witness ==
    /\ last.op = "RemovePersistentMount"
    /\ last.again
    /\ last.err = Nil
    /\ LineCount(fstab) = 1

C8_UnmountRetriesLazyOnce ==
    last.op = "UnmountLUKSVolume" =>
        LET c == last.calls
        IN /\ Len(c) \in {1, 2}
           /\ c[1].fn = "umount"
           /\ (Len(c) = 2) <=> ~c[1].ok
           /\ Len(c) = 2 => c[2].fn = "umount -l"
           /\ (last.err # Nil) <=> (\A i \in 1..Len(c) : ~c[i].ok)
           /\ (last.err = Nil) => ~mounted

\* C8 witness: umount failed on a busy mount point and the lazy unmount
\* succeeded
C8_Witness ==
    /\ last.op = "UnmountLUKSVolume"
    /\ last.pre.mounted /\ ~mounted
    /\ last.calls = <<Call("umount", FALSE), Call("umount -l", TRUE)>>
    /\ last.err = Nil

\* C9: GenerateLUKSKey rejects every length L <= 0 and every L > 64 with an
\* error and returns no secret.
C9_RejectsLengthOutOfRange ==
    (last.op = "GenerateLUKSKey" /\ (last.arg <= 0 \/ last.arg > MaxSecretLength)) =>
        /\ last.err # Nil
        /\ last.out = <<>>

\* C10: for every length L with 0 < L <= 64 GenerateLUKSKey succeeds and
\* returns exactly L bytes, from the TPM or from crypto/rand.
C10_ValidLengthYieldsKey ==
    (last.op = "GenerateLUKSKey" /\ 0 < last.arg /\ last.arg <= MaxSecretLength) =>
        /\ last.err = Nil
        /\ Len(last.out) = last.arg

\* the position of the first call of fn in the last call record, 0 if none
FirstCall(fn) ==
    LET at == {i \in 1..Len(last.calls) : last.calls[i].fn = fn}
    IN IF at = {} THEN 0 ELSE CHOOSE i \in at : \A j \in at : i <= j

\* C11: CreateLUKSVolume with a size below 1 or above 64 returns the size
\* error without a delegate call and leaves the host as it was (no backing
\* file created or truncated, no escrow write, no format); with a size from
\* 1 to 64, a secret the escrow accepts and no failing step it returns nil
\* and the backing file has exactly size * 1024 * 1024 bytes.
C11_SizeCheckedFirst ==
    last.op = "CreateLUKSVolume" =>
        /\ (cfg.Size < 1 \/ cfg.Size > 64) =>
              /\ last.err = "size must be between 1MB and 10MB"
              /\ last.calls = <<>>
              /\ World = last.pre
        /\ (cfg.Size >= 1 /\ cfg.Size <= 64) =>
              /\ last.err # "size must be between 1MB and 10MB"
              /\ last.calls # <<>>
              /\ last.err = Nil => (volumeFile /\ fileSize = cfg.Size * 1024 * 1024)
              /\ ( /\ last.io.sparse = "ok" /\ last.io.mktemp /\ last.io.format
                   /\ useTPM => ( /\ Len(cfg.Password) <= 64
                                  /\ last.io.nvdefine /\ last.io.nvwrite
                                  /\ (last.pre.nvSlot = <<>> \/ last.io.nvundefine)) )
                    => last.err = Nil

\* C11 witness: a size of 65 refused on a host whose backing file exists, the
\* file untouched
C11_Witness ==
    /\ last.op = "CreateLUKSVolume"
    /\ cfg.Size = 65
    /\ last.err # Nil
    /\ last.pre.volumeFile
    /\ fileSize = 10 * 1024 * 1024
    /\ luksHeader = LuksKey

\* C12: with UseTPM, CreateLUKSVolume starts the container-format operation
\* only after tpm2_nvwrite has succeeded; whenever the format step fails the
\* NV index holds the secret and tpm2_nvread of len(secret) bytes returns
\* it; when the escrow fails no part of the format step runs.
C12_EscrowBeforeFormat ==
    (last.op = "CreateLUKSVolume" /\ useTPM) =>
        /\ FirstCall("CreateTemp") > 0 =>
              /\ FirstCall("tpm2_nvwrite") > 0
              /\ FirstCall("tpm2_nvwrite") < FirstCall("CreateTemp")
              /\ last.calls[FirstCall("tpm2_nvwrite")].ok
        /\ last.err = "failed to format LUKS volume" =>
              /\ nvSlot = cfg.Password
              /\ retrievePasswordFromTPM(World, Len(cfg.Password), [nvread |-> TRUE])
                   = [password |-> cfg.Password, err |-> Nil,
                      calls |-> <<Call("tpm2_nvread", TRUE)>>]
        /\ last.err = "failed to store password in TPM" =>
              /\ FirstCall("CreateTemp") = 0
              /\ FirstCall("luksFormat --key-file") = 0
              /\ luksHeader = <<>>

\* C12 witness: the format operation failed after the new secret had
\* replaced an older one in the NV index
C12_Witness ==
    /\ last.op = "CreateLUKSVolume"
    /\ useTPM
    /\ last.err = "failed to format LUKS volume"
    /\ last.calls[Len(last.calls) - 1] = Call("luksFormat --key-file", FALSE)
    /\ last.pre.nvSlot = LuksKey
    /\ nvSlot = cfg.Password
    /\ nvSlot # LuksKey

\* C13: CreateLUKSVolume hands the secret to the container-format operation
\* through a pipe only: no call of it writes the secret to a file or names a
\* key file on the command line, and no file with the secret is left.
C13_SecretOnlyThroughPipe ==
    last.op = "CreateLUKSVolume" =>
        /\ FirstCall("Write luks-password") = 0
        /\ FirstCall("luksFormat --key-file") = 0
        /\ tmpFile = <<>>

\* C14: with UseTPM and a secret of 1 to 64 bytes, the escrow of
\* CreateLUKSVolume first runs tpm2_nvundefine and then, whatever that
\* returned, tpm2_nvdefine; with tools that work (the removal may fail when
\* there is nothing to remove) it succeeds and leaves exactly the new secret
\* in the NV index, whether the index was undefined or held an older secret.
C14_EscrowIdempotent ==
    (last.op = "CreateLUKSVolume" /\ useTPM
       /\ cfg.Size >= 1 /\ cfg.Size <= 64 /\ last.io.sparse = "ok"
       /\ Len(cfg.Password) >= 1 /\ Len(cfg.Password) <= 64) =>
        /\ FirstCall("tpm2_nvundefine") > 0
        /\ FirstCall("tpm2_nvdefine") = FirstCall("tpm2_nvundefine") + 1
        /\ (last.io.nvdefine /\ last.io.nvwrite
              /\ (last.pre.nvSlot = <<>> \/ last.io.nvundefine)) =>
              /\ nvSlot = cfg.Password
              /\ last.err # "failed to store password in TPM"

\* C14 witness: the escrow replaced an older secret
C14_Witness ==
    /\ last.op = "CreateLUKSVolume"
    /\ useTPM
    /\ last.err = Nil
    /\ last.calls[FirstCall("tpm2_nvundefine")].ok
    /\ last.pre.nvSlot = LuksKey
    /\ nvSlot = cfg.Password
    /\ nvSlot # LuksKey

\* the bootstrap token of the command was loaded and has both fields
TokenValid ==
    cfg.Bootstrap.loaded /\ cfg.Bootstrap.TokenId # "" /\ cfg.Bootstrap.Version # ""

\* C15: authorize with a bootstrap token that cannot be loaded or lacks the
\* token identifier or the version ends before SetupLUKSVolume: the host is
\* as it was, no secret is generated, and no step of the provisioning ever
\* runs under such a token.
C15_TokenValidatedFirst ==
    /\ (last.op = "authorize" /\ ~TokenValid) =>
          /\ last.err # Nil
          /\ pc = "idle"
          /\ World = last.pre
          /\ cfg.Password = <<>>
    /\ (pc # "idle" \/ Len(run) > 1) => TokenValid

\* C15 witness: a token without version, on a host with a provisioned volume
C15_Witness ==
    /\ last.op = "authorize"
    /\ cfg.Bootstrap = [loaded |-> TRUE, TokenId |-> "t1", Version |-> ""]
    /\ cfg.Keyfile = KeyFile
    /\ last.err = "Invalid configuration"
    /\ volumeFile

\* the calls of the tpm2 tools in the last call record
TPMCalls ==
    {i \in 1..Len(last.calls) :
        last.calls[i].fn \in {"tpm2_nvundefine", "tpm2_nvdefine", "tpm2_nvwrite",
                              "tpm2_nvread", "tpm2_getrandom"}}

C17_FormatBetweenOpenAndMount ==
    /\ \A i \in 1..Len(last.calls) :
          last.calls[i].fn = "mkfs.ext4" => last.calls[i].session = "Opened"
    /\ pc = "FormatLUKSVolume" =>
          /\ last.op = "OpenLUKSVolume" /\ last.err = Nil
          /\ mappings = 1 /\ ~mounted
    /\ (pc = "MountLUKSVolume" \/ last.op = "MountLUKSVolume") =>
          \E i \in 1..Len(run) : run[i] = [step |-> "OpenLUKSVolume", ok |-> TRUE]
    /\ (last.op = "mount" /\ FirstCall("MkdirAll") > 0) =>
          /\ FirstCall("luksOpen") > 0
          /\ FirstCall("luksOpen") < FirstCall("MkdirAll")
          /\ last.calls[FirstCall("luksOpen")].ok

\* C17 witness: the filesystem made on the mapping authorize has just opened
C17_Witness ==
    /\ last.op = "FormatLUKSVolume"
    /\ last.err = Nil
    /\ last.calls = <<[fn |-> "mkfs.ext4", ok |-> TRUE, session |-> "Opened"]>>
    /\ last.pre.mappings = 1 /\ ~last.pre.mounted
    /\ pc = "MountLUKSVolume"

\* C18: the steps of a provisioning run in the order GenerateLUKSKey,
\* CreateLUKSVolume, OpenLUKSVolume, FormatLUKSVolume, MountLUKSVolume; no
\* step runs after a failed one, the command ends with the failed step, and
\* what the earlier steps made is left as it is: no teardown call, the
\* container, the escrowed secret and the open mapping still there.
C18_SetupFailFast ==
    LET order == <<"authorize", "checkTPM", "GenerateLUKSKey", "CreateLUKSVolume",
                   "OpenLUKSVolume", "FormatLUKSVolume", "MountLUKSVolume",
                   "writeKeyToFile">>
        n == Len(run)
    IN /\ n <= Len(order)
       /\ \A i \in 1..n : run[i].step = order[i]
       /\ \A i \in 1..(n - 1) : run[i].ok
       /\ (n > 0 /\ ~run[n].ok) => pc = "idle"
       /\ (n > 0 /\ run[n].ok /\ n < Len(order)) => pc = order[n + 1]
       /\ (last.op \in {"OpenLUKSVolume", "FormatLUKSVolume", "MountLUKSVolume"}
             /\ last.err # Nil) =>
             /\ volumeFile /\ luksHeader = cfg.Password
             /\ fileSize = cfg.Size * 1024 * 1024
             /\ useTPM => nvSlot = cfg.Password
             /\ \A i \in 1..Len(last.calls) :
                   last.calls[i].fn \notin {"umount", "umount -l", "RemoveAll", "Remove",
                                            "tpm2_nvundefine"}
       /\ (last.op \in {"FormatLUKSVolume", "MountLUKSVolume"} /\ last.err # Nil) =>
             mappings = 1

\* C18 witness: FormatLUKSVolume failed, the command ended, the container
\* and the open mapping are left
C18_Witness ==
    /\ last.op = "FormatLUKSVolume"
    /\ last.err # Nil
    /\ pc = "idle"
    /\ Len(run) = 6
    /\ volumeFile /\ mappings = 1 /\ ~mounted

\* C19: MountLUKSVolume calls MkdirAll, then mount, then chown, each only
\* after the one before succeeded; with an empty user or an empty group it
\* returns an error and runs no chown; when it returns nil the mount point
\* exists, is mounted and belongs to the configured user and group.
C19_MountSetsOwner ==
    last.op = "MountLUKSVolume" =>
        LET c == last.calls
        IN /\ Len(c) \in 1..3
           /\ c[1].fn = "MkdirAll"
           /\ Len(c) >= 2 => (c[1].ok /\ c[2].fn = "mount")
           /\ Len(c) = 3 => (c[2].ok /\ c[3].fn = "chown")
           /\ (cfg.User = "" \/ cfg.Group = "") =>
                 /\ last.err # Nil
                 /\ Len(c) < 3
                 /\ owner = last.pre.owner
           /\ last.err = Nil =>
                 /\ c[Len(c)] = Call("chown", TRUE)
                 /\ mountDir /\ mounted
                 /\ owner = <<cfg.User, cfg.Group>>

\* C19 witness: a descriptor without user, the volume mounted and the error
\* returned
C19_Witness ==
    /\ last.op = "MountLUKSVolume"
    /\ cfg.User = "" /\ cfg.Group = "udm"
    /\ last.err = "user and group must be specified"
    /\ last.calls = <<Call("MkdirAll", TRUE), Call("mount", TRUE)>>
    /\ mounted

\* C20: when authorize without UseTPM has run to its end, the mapping is
\* active, the mount point exists with the volume mounted on it, and it
\* belongs to the configured user and group.
C20_AuthorizeEndsMounted ==
    (~useTPM /\ (pc = "writeKeyToFile" \/ last.op = "writeKeyToFile")) =>
        /\ mappings = 1
        /\ mounted
        /\ mountDir
        /\ owner = <<cfg.User, cfg.Group>>

\* C20 witness: authorize in file mode at its end, the key file written
C20_Witness ==
    /\ last.op = "writeKeyToFile"
    /\ ~useTPM
    /\ pc = "idle"
    /\ Len(run) = 8
    /\ keyfile = cfg.Password
    /\ mounted

\* C21: UnmountAndCloseLUKSVolume on a descriptor that is not nil runs the
\* unmount step and then the close step, the close also after a failed
\* unmount, and returns nil whatever the two steps returned; on a nil
\* descriptor it returns an error, runs nothing and leaves the host as it
\* was.
C21_UnmountAndCloseRunsBoth ==
    last.op = "UnmountAndCloseLUKSVolume" =>
        IF last.arg = "nil"
        THEN last.err # Nil /\ last.calls = <<>> /\ World = last.pre
        ELSE /\ last.err = Nil
             /\ Steps(last.calls) = <<"umount", "luksClose">>
             /\ last.calls[1].fn = "umount"
             /\ last.calls[Len(last.calls)].fn = "luksClose"

\* C21 witness: both unmount attempts failed on a busy mount point, the
\* close was still run and failed, and the call returned nil
C21_Witness ==
    /\ last.op = "UnmountAndCloseLUKSVolume"
    /\ last.arg = "cfg"
    /\ last.pre.mounted /\ mounted /\ mappings = 1
    /\ last.calls = <<Call("umount", FALSE), Call("umount -l", FALSE),
                      Call("luksClose", FALSE)>>
    /\ last.err = Nil

C23_KeyfileRoundTrip ==
    /\ last.op = "writeKeyToFile" =>
          /\ Len(cfg.Password) = 0 =>
                (last.err # Nil /\ last.calls = <<>> /\ World = last.pre)
          /\ last.err = Nil => keyfile = cfg.Password
          /\ (Len(cfg.Password) > 0 /\ last.io.create /\ last.io.write) =>
                last.err = Nil
    /\ last.op = "readKeyFromFile" =>
          /\ run[1].ok =>
                /\ last.io.read <=> last.err = Nil
                /\ last.err = Nil => last.out = cfg.Password
          /\ Len(keyfile) = 0 => (last.err # Nil /\ last.out = <<>>)

\* C23 witness: a secret that ends with a newline, read back whole
C23_Witness ==
    /\ last.op = "readKeyFromFile"
    /\ run[1].ok
    /\ last.err = Nil
    /\ cfg.Password = <<0, LF, LF>>
    /\ last.out = <<0, LF, LF>>

\* C24: with UseTPM no command writes the secret to a file: the key file is
\* not created or written, no other file with the secret is written or
\* left; the key file is written by authorize without UseTPM only.
C24_SecretFileOnlyInFileMode ==
    /\ useTPM =>
          /\ keyfile = <<>>
          /\ FirstCall("Create keyfile") = 0
          /\ FirstCall("Write luks-password") = 0
          /\ tmpFile = <<>>
    /\ FirstCall("Create keyfile") > 0 => (~useTPM /\ last.op = "writeKeyToFile")

\* C25: the secret the descriptor holds is never longer than 64 bytes; a
\* secret is generated, escrowed or read from the NV index only for a
\* configured length from 1 to 64, and the mount command unlocks only with a
\* key file of 1 to 64 bytes.
C25_LengthsValidated ==
    /\ Len(cfg.Password) <= 64
    /\ (last.op = "GenerateLUKSKey" /\ last.err = Nil) =>
          /\ cfg.PasswordLength >= 1 /\ cfg.PasswordLength <= 64
          /\ Len(cfg.Password) = cfg.PasswordLength
    /\ (FirstCall("tpm2_nvdefine") > 0 \/ FirstCall("tpm2_nvread") > 0) =>
          (cfg.PasswordLength >= 1 /\ cfg.PasswordLength <= 64)
    /\ (last.op = "mount" /\ ~useTPM /\ FirstCall("luksOpen") > 0) =>
          (Len(last.pre.keyfile) >= 1 /\ Len(last.pre.keyfile) <= 64)

\* C28: for every length GenerateLUKSKey accepts, it returns a key of that
\* length and no error whatever the TPM does: when /dev/tpmrm0 is there and
\* tpm2_getrandom runs and prints hex, the key is the decoded output and
\* crypto/rand is not used; when the check of the device fails, the device
\* is missing, the command fails or its output is no hex, the key comes from
\* crypto/rand; without the device tpm2_getrandom is not run.
C28_FallbackOnHardwareFailure ==
    (last.op = "GenerateLUKSKey" /\ last.arg > MinKeyLength) =>
        LET e == last.io
            hardware == /\ hasTPM /\ ~e.statErr /\ e.run
                        /\ e.out \in {"hex", "hexnl"}
        IN /\ last.err = Nil
           /\ Len(last.out) = last.arg
           /\ hardware => last.calls = <<Call("tpm2_getrandom", TRUE)>>
           /\ ~hardware => last.calls[Len(last.calls)] = Call("rand.Read", TRUE)
           /\ (~hasTPM \/ e.statErr) => last.calls = <<Call("rand.Read", TRUE)>>

\* C28 witness: tpm2_getrandom ran and printed what is no hex string, the
\* key of 32 bytes came from crypto/rand
C28_Witness ==
    /\ last.op = "GenerateLUKSKey"
    /\ last.arg = 32
    /\ hasTPM
    /\ last.io.out = "bad"
    /\ last.calls = <<Call("tpm2_getrandom", TRUE), Call("rand.Read", TRUE)>>
    /\ last.err = Nil
    /\ Len(last.out) = 32

\* the configuration has every required field
Complete(c) ==
    /\ c.VolumePath # <<>> /\ c.MapperName # <<>> /\ c.MountPoint # <<>>
    /\ c.PasswordLength # 0 /\ c.Size # 0

\* C29: with a configuration file that lacks the volume path, the mapper
\* name, the mount point, the password length or the size, LoadConfig fails
\* and the process ends with the host as it was and no delegate called; a
\* command only ever runs with a complete configuration whose user and
\* group are not empty, each root when the file did not set it.
C29_ConfigValidatedFirst ==
    /\ last.op = "LoadConfig" =>
          /\ ~Complete(last.arg) =>
                /\ last.err # Nil
                /\ pc = "exited"
                /\ World = last.pre
                /\ last.calls = <<>>
          /\ last.err = Nil =>
                /\ cfg.User = (IF last.arg.User = "" THEN "root" ELSE last.arg.User)
                /\ cfg.Group = (IF last.arg.Group = "" THEN "root" ELSE last.arg.Group)
    /\ last.op \notin {"init", "LoadConfig"} =>
          /\ Complete(cfg)
          /\ cfg.User # "" /\ cfg.Group # ""
    /\ pc = "idle" => (Complete(cfg) /\ cfg.User # "" /\ cfg.Group # "")

\* C29 witness: a file without user, mounted for root and the group of the
\* file
C29_Witness ==
    /\ last.op = "mount"
    /\ last.err = Nil
    /\ cfg.User = "root" /\ cfg.Group = "users"
    /\ owner = <<"root", "users">>

\* C30: with UseTPM, OpenLUKSVolume runs cryptsetup luksOpen only after a
\* tpm2_nvread that succeeded, and what it writes into the pipe of luksOpen
\* is the secret tpm2_nvread returned (the first PasswordLength bytes of the
\* NV index) with the line end of createPasswordInput, not the password the
\* descriptor came with; when tpm2_nvread fails it returns the retrieval
\* error, luksOpen is not run and no mapping is active.
C30_RetrieveBeforeUnlock ==
    (last.op = "OpenLUKSVolume" /\ useTPM) =>
        LET r == FirstCall("tpm2_nvread")
            o == FirstCall("luksOpen")
        IN /\ o > 0 =>
                 /\ r > 0 /\ r < o
                 /\ last.calls[r].ok
                 /\ last.calls[o].stdin =
                      SubSeq(last.pre.nvSlot, 1, cfg.PasswordLength) \o <<LF>>
           /\ (r > 0 /\ ~last.calls[r].ok) =>
                 /\ last.err = "failed to retrieve password from TPM"
                 /\ o = 0
                 /\ mappings = 0
           /\ last.err = Nil => (r > 0 /\ o > 0 /\ mappings = 1)

\* C30 witness: the retrieval failed after the existing mapping had been
\* closed
C30_Witness ==
    /\ last.op = "OpenLUKSVolume"
    /\ useTPM
    /\ last.pre.mappings = 1
    /\ last.calls = <<Call("luksClose", TRUE), Call("tpm2_nvread", FALSE)>>
    /\ last.err = "failed to retrieve password from TPM"
    /\ mappings = 0

\* C26: CloseLUKSVolume on a mapping that is not active returns nil and
\* leaves the host as it was, so that a second CloseLUKSVolume after a
\* successful one changes nothing and succeeds as well.
C26_CloseIdempotent ==
    (last.op = "CloseLUKSVolume" /\ last.pre.mappings = 0) =>
        /\ last.err = Nil
        /\ World = last.pre

\* the fields of a line: the parts between its spaces
RECURSIVE Fields(_)
Fields(line) ==
    LET sps == {i \in 1..Len(line) : line[i] = SP}
        i == CHOOSE j \in sps : \A k \in sps : j <= k
    IN IF sps = {} THEN <<line>>
       ELSE <<SubSeq(line, 1, i - 1)>> \o Fields(SubSeq(line, i + 1, Len(line)))

\* C27: the /etc/crypttab line a successful AddPersistentMount wrote is,
\* with UseTPM, <name> <path> none luks,keyscript=<script> followed by the
\* two arguments of the key script, the NV index and the secret length, and
\* without UseTPM <name> <path> <key file> luks.
C27_UnlockLineForm ==
    (last.op = "AddPersistentMount" /\ last.err = Nil) =>
        LET lines == ScanLines(crypttab)
            f == Fields(lines[Len(lines)])
        IN IF useTPM
           THEN /\ Len(f) = 6
                /\ SubSeq(f, 1, 4) =
                     <<MapperName, VolumePath, <<"none">>,
                       <<"luks,keyscript=/usr/local/bin/tpm-luks-keyscript.sh">> >>
                /\ f[5] = <<"0x1500016">>
                /\ f[6] = <<ToString(cfg.PasswordLength)>>
           ELSE f = <<MapperName, VolumePath, KeyFile, <<"luks">> >>


\* the running call has made the call fn and it succeeded
Succeeded(fn) == \E i \in 1..Len(last.calls) : last.calls[i] = Call(fn, TRUE)

\* C31: removeLineFromFile replaces a table atomically.  At every point of
\* a call the table holds its complete original content or its complete
\* filtered content and the other table is as it was; the table changes
\* only by an os.Rename that succeeded, after writer.Flush and
\* tempFile.Close succeeded, with nothing left in the buffer; a call that
\* has returned an error has left the table as it was, and every call that
\* has returned has left no temporary file.
C31_AtomicReplace ==
    last.op = "removeLineFromFile" =>
        LET orig == Table(last.pre, scan.path)
            filtered == removeLineFromFile(orig, scan.token, TRUE).content
            now == Table(World, scan.path)
            other == IF scan.path = "/etc/fstab" THEN "/etc/crypttab"
                     ELSE "/etc/fstab"
            renamed == Succeeded("os.Rename")
        IN /\ now \in {orig, filtered}
           /\ Table(World, other) = Table(last.pre, other)
           /\ renamed =>
                 /\ now = filtered
                 /\ Succeeded("Flush")
                 /\ Succeeded("tempFile.Close")
                 /\ scan.buf = <<>>
                 /\ ~scan.tempOpen
           /\ ~renamed => now = orig
           /\ (pc = "idle" /\ last.err # Nil) => now = orig /\ tempFile = NoFile
           /\ (pc = "idle" /\ last.err = Nil) => renamed /\ tempFile = NoFile

\* a call that returned nil and removed lines, the writer having written
\* its buffer out within the loop
C31_Witness ==
    /\ last.op = "removeLineFromFile"
    /\ pc = "idle"
    /\ last.err = Nil
    /\ Table(World, scan.path) # Table(last.pre, scan.path)
    /\ Len(last.calls) = Len(RewriteOrder) - 1

\* C32: when the step that consumes the piped secret has returned, the
\* goroutine of createPasswordInput has written the secret into the pipe,
\* once, and has closed the write end, whatever the command did.
C32_WriterDoneBeforeReturn ==
    (last.op \in PipeCommands /\ pc = "idle") =>
        /\ writer = "done"
        /\ ~pipe.wOpen
        /\ Succeeded("w.Write")
        /\ child.read \o pipe.buf = createPasswordInput(last.arg, last.op = "luksOpen")

\* the standard input of the cryptsetup luksOpen of the last call
OpenStdin ==
    LET at == {i \in 1..Len(last.calls) : last.calls[i].fn = "luksOpen"}
    IN IF at = {} THEN <<"none">> ELSE last.calls[CHOOSE i \in at : TRUE].stdin

\* C33: with UseTPM, after a CreateLUKSVolume that succeeded the NV index
\* holds exactly the password the container was formatted with, and an
\* OpenLUKSVolume that follows with the same cfg.PasswordLength, in the
\* authorize command or in a later mount command, pipes that password and
\* the newline to cryptsetup luksOpen, unless the close of an existing
\* mapping or tpm2_nvread itself failed.
C33_EscrowRoundTrip ==
    /\ (last.op = "CreateLUKSVolume" /\ last.err = Nil /\ useTPM) =>
           /\ nvSlot = cfg.Password
           /\ luksHeader = cfg.Password
    /\ ( /\ last.op \in {"OpenLUKSVolume", "mount"}
         /\ useTPM
         /\ \E i \in 1..Len(run) : run[i] = [step |-> "CreateLUKSVolume", ok |-> TRUE] ) =>
           \/ last.err = "failed to close existing mapping"
           \/ /\ last.err = "failed to retrieve password from TPM"
              /\ Call("tpm2_nvread", FALSE) = last.calls[Len(last.calls)]
           \/ /\ OpenStdin = last.pre.luksHeader \o <<LF>>
              /\ last.pre.nvSlot = last.pre.luksHeader
              /\ Len(last.pre.nvSlot) = cfg.PasswordLength

\* an OpenLUKSVolume that retrieved the password CreateLUKSVolume escrowed
\* and unlocked the container with it
C33_Witness ==
    /\ last.op = "OpenLUKSVolume"
    /\ useTPM
    /\ last.err = Nil
    /\ \E i \in 1..Len(run) : run[i] = [step |-> "CreateLUKSVolume", ok |-> TRUE]
    /\ OpenStdin = cfg.Password \o <<LF>>
    /\ nvSlot = cfg.Password

\* C34: an OpenLUKSVolume that fails leaves the mappings as they were: a
\* mapping of the configured name that was active before the call is still
\* active after it.
C34_FailedOpenKeepsMapping ==
    (last.op = "OpenLUKSVolume" /\ last.err # Nil /\ last.pre.mappings > 0) =>
        mappings = last.pre.mappings

\* C35: a MountLUKSVolume that returns an error, the error for an empty
\* user or group and the error of the ownership change included, on a
\* volume that was not mounted has left it not mounted: the mapping is
\* active and nothing is mounted at the mount point.
C35_FailedMountNotMounted ==
    (last.op = "MountLUKSVolume" /\ last.err # Nil /\ ~last.pre.mounted) =>
        /\ ~mounted
        /\ mappings = last.pre.mappings

\* C36: when authorize without UseTPM has run to its end and reported
\* success, the key file exists and holds exactly the password the
\* container was formatted with; a key file that could not be created or
\* written is not reported as success.
C36_KeyfileWrittenOnSuccess ==
    (last.op = "writeKeyToFile" /\ ~useTPM /\ pc = "idle" /\ last.err = Nil) =>
        /\ keyfile # <<>>
        /\ keyfile = luksHeader
        /\ \A i \in 1..Len(last.calls) : last.calls[i].ok

\* C37: AddPersistentMount changes both tables or none: when it returns
\* nil /etc/crypttab and /etc/fstab have one line more each, and when it
\* returns an error, the error of blkid and of the append to /etc/fstab
\* included, both tables are as they were.
C37_AddAllOrNothing ==
    last.op = "AddPersistentMount" =>
        IF last.err = Nil
        THEN /\ LineCount(fstab) = LineCount(last.pre.fstab) + 1
             /\ LineCount(crypttab) = LineCount(last.pre.crypttab) + 1
        ELSE TablesUnchanged

\* a line of /etc/fstab whose mount point, the second field, is not
\* cfg.MountPoint, and a line of /etc/crypttab whose name, the first field,
\* is not cfg.MapperName
OtherMount(line) == Len(Fields(line)) < 2 \/ Fields(line)[2] # MountPoint
OtherName(line) == Fields(line)[1] # MapperName

\* C38: RemovePersistentMount keeps the lines of every other volume: the
\* /etc/fstab lines with another mount point and the /etc/crypttab lines
\* with another name are after the call what they were before it, in the
\* same order, also when the other mount point or name contains the
\* configured one.
C38_RemoveKeepsOtherVolumes ==
    last.op = "RemovePersistentMount" =>
        /\ SelectSeq(ScanLines(fstab), OtherMount)
             = SelectSeq(ScanLines(last.pre.fstab), OtherMount)
        /\ SelectSeq(ScanLines(crypttab), OtherName)
             = SelectSeq(ScanLines(last.pre.crypttab), OtherName)

\* C39: for every key GenerateLUKSKey returned, newline bytes included, the
\* passphrase cryptsetup luksOpen takes from the pipe of OpenLUKSVolume, the
\* bytes before the first newline, is the passphrase cryptsetup luksFormat
\* got from CreateLUKSVolume with that key.
C39_OpenPassphraseMatchesFormat ==
    ( /\ last.op = "OpenLUKSVolume"
      /\ \E i \in 1..Len(run) : run[i] = [step |-> "CreateLUKSVolume", ok |-> TRUE]
      /\ Called("luksOpen") ) =>
        StdinPassphrase(OpenStdin) = last.pre.luksHeader

====
